---- MODULE Spec2Model ----
(***************************************************************************)
(* KiotViet -> Google Sheets work migration (src/job/workMigrationJob.js)  *)
(* driven by the cron scheduler (src/scheduler.js).                        *)
(*                                                                         *)
(* A text is a sequence of tokens.  A token is one character of the JS     *)
(* string; Vietnamese letters are written as ASCII tokens ("DD" is the     *)
(* capital D with stroke, "e." an e with dot below, "a?" an a with hook    *)
(* above).  Strings whose characters are never inspected by the code       *)
(* (invoice codes, configured dropdown values, header titles) are texts of *)
(* one token.  The empty text <<>> is the JS empty string.                 *)
(***************************************************************************)
EXTENDS Integers, Sequences, FiniteSets, TLC

VARIABLES
    today,        \* index into Days: the local calendar day of new Date()
    upstream,     \* invoices held by the KiotViet API, in order of arrival
    sheetExists,  \* the spreadsheet has a tab named config.spreadsheet.sheetName
    sheet,        \* the tab's rows (row 1 is the header), each row 12 cells A..L
    pc,           \* per sync run: the call the run is about to make
    invoices,     \* per run: the processed invoices returned by fetchInvoices
    existingCodes,\* per run: the Set built from column A
    rows,         \* per run: the rows prepared for insertion
    scan,         \* per run: setupDropdowns' three lists of rows to backfill
    result,       \* per run: what main() returned ("none" while it runs)
    fault,        \* per run: where a call threw ("none" if no call threw)
    owed,         \* how many upstream invoices existed when a run last failed
    cycles,       \* number of sync runs started so far
    edits,        \* number of cells a person has edited by hand
    descriptionText, \* a description text handed to a parseDescription
    parsed,       \* what that parseDescription returned
    entryPoint,   \* which parseDescription was called ("none" before the call)
    reportDay,    \* the local date of new Date() when a report reads the sheet
    report,       \* which read of DailyReportJob was made ("none" before it)
    reported,     \* what that read returned
    runEntry,     \* which report run was started ("none" before it)
    runPc,        \* the procedure the report run is about to call
    started,      \* the report procedures started so far, in order
    calls,        \* the calls of sendToDailyReportTopic so far, in order
    failed,       \* the report procedures that logged an error and returned false
    validations,  \* the data validation rule of each column of the sheet
    condRules,    \* the conditional format rules of the sheet, in order
    setups,       \* how many calls of setupDropdowns were made on the sheet
    afterFirst,   \* the sheet, its validations and its rules after the first call
    bought,       \* the purchase date of an invoice a sync writes
    sheetLocale,  \* how the spreadsheet reads a typed date: month first or day first
    wanted,       \* the target day of an unestimated report
    receiveCell,  \* the text values.get returns for the receive-date cell
    reconciledText, \* formattedReceiveDate of that text
    isTargetDate, \* whether the report took the cell for the target day
    datePc,       \* how far the cell has come: written, reconciled, compared
    categoryTable,\* the rows of the table item_category, in order of insertion
    seedPc,       \* the call seedCategories is about to make
    seedNext,     \* the index of the seed category it inserts next
    seedRuns      \* how each run of dataMigrationJob.main so far ended

\* the state of the sync runs and of what they work on
syncVars == <<today, upstream, sheetExists, sheet, pc, invoices, existingCodes,
              rows, scan, result, fault, owed, cycles, edits>>

\* the state of the calls made apart from a sync run
parseVars == <<descriptionText, parsed, entryPoint>>
reportVars == <<reportDay, report, reported>>
runVars == <<runEntry, runPc, started, calls, failed>>
setupVars == <<validations, condRules, setups, afterFirst>>
dateVars == <<bought, sheetLocale, wanted, receiveCell, reconciledText, isTargetDate,
              datePc>>
seedVars == <<categoryTable, seedPc, seedNext, seedRuns>>
further == <<runVars, setupVars, dateVars, seedVars>>
besideRun == <<setupVars, dateVars, seedVars>>
besideSetup == <<runVars, dateVars, seedVars>>
besideDate == <<runVars, setupVars, seedVars>>
besideSeed == <<runVars, setupVars, dateVars>>
aside == <<parseVars, reportVars, further>>

vars == <<syncVars, aside>>

----------------------------------------------------------------------------
(* Bounds of the model *)

MaxRuns == 2
MaxCycles == 2
MaxInvoices == 2
MaxDay == 2
MaxEdits == 1

RunIds == 1..MaxRuns

----------------------------------------------------------------------------
(* Texts *)

Digits == <<"0", "1", "2", "3", "4", "5", "6", "7", "8", "9">>

IsDigit(c) == \E i \in 1..10 : Digits[i] = c

\* String.prototype.trim: white space and line terminators
IsSpace(c) == c \in {" ", "\t", "\r", "\n"}

RECURSIVE TrimStart(_)
TrimStart(s) ==
    IF s # <<>> /\ IsSpace(Head(s)) THEN TrimStart(Tail(s)) ELSE s

RECURSIVE TrimEnd(_)
TrimEnd(s) ==
    IF s # <<>> /\ IsSpace(s[Len(s)]) THEN TrimEnd(SubSeq(s, 1, Len(s) - 1)) ELSE s

Trim(s) == TrimEnd(TrimStart(s))

\* String.prototype.split(sep) for a one-character separator
RECURSIVE Split(_, _)
Split(s, sep) ==
    IF \E i \in 1..Len(s) : s[i] = sep
    THEN LET i == CHOOSE k \in 1..Len(s) :
                      s[k] = sep /\ \A j \in 1..(k - 1) : s[j] # sep
         IN  <<SubSeq(s, 1, i - 1)>> \o Split(SubSeq(s, i + 1, Len(s)), sep)
    ELSE <<s>>

\* String.prototype.toLowerCase on the letters of the model's alphabet
ToLower(c) ==
    CASE c = "H"  -> "h"
      [] c = "E." -> "e."
      [] c = "N"  -> "n"
      [] c = "T"  -> "t"
      [] c = "R"  -> "r"
      [] c = "A?" -> "a?"
      [] c = "DD" -> "dd"
      [] c = "C"  -> "c"
      [] OTHER    -> c

LowerCase(s) == [i \in 1..Len(s) |-> ToLower(s[i])]

StartsWith(s, p) == Len(s) >= Len(p) /\ SubSeq(s, 1, Len(p)) = p

\* String(n).padStart(2, '0') for 0 <= n <= 99
Pad2(n) == <<Digits[(n \div 10) + 1], Digits[(n % 10) + 1]>>

\* String(n) for a four-digit year
Year4(n) == <<Digits[(n \div 1000) + 1], Digits[((n \div 100) % 10) + 1],
              Digits[((n \div 10) % 10) + 1], Digits[(n % 10) + 1]>>

----------------------------------------------------------------------------
(* Configuration *)

StatusValues == << <<"Chua lam">>, <<"Dang lam">>, <<"Phat sinh">>,
                   <<"Hoan thanh">>, <<"Dong don">>, <<"Huy don">> >>

PeopleValues == << <<"Chon nguoi lam">>, <<"Minh">>, <<"Huy">>, <<"Thang">>,
                   <<"Vuon Dao">>, <<"Ha Noi">>, <<"Nam Dinh">> >>

DelayValues == << <<"Chon">>, <<"Delay lan 1">>, <<"Delay lan 2">>,
                  <<"Delay lan 3">> >>

Headers == << <<"Hoa don">>, <<"Ngay nhan">>, <<"Ngay tra">>, <<"Ten do dung">>,
              <<"Cong viec">>, <<"Trang thai">>, <<"Thoi gian">>, <<"Nguoi lam">>,
              <<"Trang thai thanh toan">>, <<"Ghi chu">>, <<"Lan Delay">>,
              <<"Ngay tra moi">> >>

\* params.pageSize of the invoice query
PageSize == 200

\* Column numbers (1-based) of the persisted layout A..L
ColCode == 1
ColReceive == 2
ColReturn == 3
ColItem == 4
ColWork == 5
ColStatus == 6
ColTime == 7
ColPeople == 8
ColPayment == 9
ColNote == 10
ColDelay == 11
ColNewReturn == 12
NumCols == 12

----------------------------------------------------------------------------
(* parseDescription *)

PaidMarker == <<"DD", "T", "T">>
UnpaidMarker == <<"C", "T", "T">>
ReturnMarker == <<"h", "e.", "n", " ", "t", "r", "a?", ":">>
Paid == <<"Da thanh toan">>
Unpaid == <<"Chua thanh toan">>

\* /^\d+\./ : one or more digits, then a period
RECURSIVE DigitsLen(_)
DigitsLen(s) ==
    IF s # <<>> /\ IsDigit(Head(s)) THEN 1 + DigitsLen(Tail(s)) ELSE 0

\* /^\d+/ : the period after the digits is not asked for
IsNumberedNoPeriod(s) == DigitsLen(s) >= 1

IsNumbered(s) ==
    LET n == DigitsLen(s) IN n >= 1 /\ Len(s) > n /\ s[n + 1] = "."

\* s.replace(/^\d+\.\s*/, '')
StripNumber(s) ==
    IF IsNumbered(s)
    THEN TrimStart(SubSeq(s, DigitsLen(s) + 2, Len(s)))
    ELSE s

\* s.replace(/hen tra:/i, ''): the first match, in any letter case, removed
RemoveMarker(s) ==
    LET low == LowerCase(s)
        n == Len(ReturnMarker)
        at == {i \in 1..(Len(s) - n + 1) : SubSeq(low, i, i + n - 1) = ReturnMarker}
    IN  IF at = {} THEN s
        ELSE LET i == CHOOSE k \in at : \A j \in at : k <= j
             IN  SubSeq(s, 1, i - 1) \o SubSeq(s, i + n, Len(s))

\* the non-empty lines of the description
Lines(description) ==
    SelectSeq(Split(description, "\n"), LAMBDA line : Trim(line) # <<>>)

\* split at the first '+' only: the work is all the text after it
ItemOfLineRest(line) ==
    LET plus == {i \in 1..Len(line) : line[i] = "+"}
        first == IF plus = {} THEN Len(line) + 1
                 ELSE CHOOSE i \in plus : \A j \in plus : i <= j
    IN  [productName |-> Trim(StripNumber(Trim(SubSeq(line, 1, first - 1)))),
         work |-> Trim(SubSeq(line, first + 1, Len(line)))]

\* the work item of one numbered line
ItemOfLine(line) ==
    LET parts == [i \in 1..Len(Split(line, "+")) |-> Trim(Split(line, "+")[i])]
    IN  [productName |-> Trim(StripNumber(parts[1])),
         work |-> IF Len(parts) > 1 THEN parts[2] ELSE <<>>]

\* unshift instead of push: the items come out in reverse line order
ParseLineUnshift(res, line) ==
    IF IsNumbered(Trim(line))
    THEN [res EXCEPT !.items = <<[productName |-> Trim(StripNumber(Trim(Split(line, "+")[1]))),
                                  work |-> IF Len(Split(line, "+")) > 1
                                           THEN Trim(Split(line, "+")[2]) ELSE <<>>]>> \o @]
    ELSE res

\* the payment status is set once: a later marker line does not change it
ParseLineFirstPayment(res, line) ==
    CASE IsNumbered(Trim(line)) ->
            [res EXCEPT !.items = Append(@, ItemOfLine(line))]
      [] ~IsNumbered(Trim(line)) /\ Trim(line) \in {PaidMarker, UnpaidMarker} ->
            IF res.paymentStatus # <<>> THEN res
            ELSE [res EXCEPT !.paymentStatus =
                      IF Trim(line) = PaidMarker THEN Paid ELSE Unpaid]
      [] /\ ~IsNumbered(Trim(line))
         /\ Trim(line) \notin {PaidMarker, UnpaidMarker}
         /\ StartsWith(LowerCase(Trim(line)), ReturnMarker) ->
            [res EXCEPT !.returnDate = Trim(RemoveMarker(line))]
      [] OTHER -> res

\* one iteration of lines.forEach
ParseLine(res, line) ==
    CASE IsNumbered(Trim(line)) ->
            [res EXCEPT !.items = Append(@, ItemOfLine(line))]
      [] ~IsNumbered(Trim(line)) /\ Trim(line) = PaidMarker ->
            [res EXCEPT !.paymentStatus = Paid]
      [] ~IsNumbered(Trim(line)) /\ Trim(line) = UnpaidMarker ->
            [res EXCEPT !.paymentStatus = Unpaid]
      [] /\ ~IsNumbered(Trim(line))
         /\ Trim(line) \notin {PaidMarker, UnpaidMarker}
         /\ StartsWith(LowerCase(Trim(line)), ReturnMarker) ->
            [res EXCEPT !.returnDate = Trim(RemoveMarker(line))]
      [] OTHER -> res

RECURSIVE ParseLines(_, _)
ParseLines(res, lines) ==
    IF lines = <<>> THEN res
    ELSE ParseLines(ParseLine(res, Head(lines)), Tail(lines))

parseDescription(description) ==
    ParseLines([items |-> <<>>, paymentStatus |-> <<>>, returnDate |-> <<>>],
               IF description = <<>> THEN <<>> ELSE Lines(description))

----------------------------------------------------------------------------
(* formatDate: MM/dd/yyyy HH:mm in local time *)

formatDate(d) ==
    Pad2(d.month) \o <<"/">> \o Pad2(d.day) \o <<"/">> \o Year4(d.year)
        \o <<" ">> \o Pad2(d.hours) \o <<":">> \o Pad2(d.minutes)

----------------------------------------------------------------------------
(* The upstream API and fetchInvoices *)

\* the local calendar day number i of the model
Day(i) == [year |-> 2025, month |-> 3, day |-> 9 + i]

DateOf(d) == [year |-> d.year, month |-> d.month, day |-> d.day]

\* the invoices the shop may enter: the code and the description of each.
\* The description of HD001 is "2.B+u\nx\n1.A+g\nDDTT\nHe.n tra?: 15/3";
\* HD002 has no description; the third invoice has neither code nor description
Catalogue ==
    { [code |-> <<"HD001">>,
       description |->
          <<"2", ".", "B", "+", "u", "\n", "x", "\n", "1", ".", "A", "+", "g", "\n",
            "DD", "T", "T", "\n",
            "H", "e.", "n", " ", "t", "r", "a?", ":", " ", "1", "5", "/", "3">>],
      [code |-> <<"HD002">>, description |-> <<>>],
      [code |-> <<>>, description |-> <<>>] }

RECURSIVE Reverse(_)
Reverse(s) == IF s = <<>> THEN <<>> ELSE Append(Reverse(Tail(s)), Head(s))

Take(s, n) == SubSeq(s, 1, IF Len(s) < n THEN Len(s) ELSE n)

\* GET /invoices: purchase date within [date, date], newest first, one page
ApiInvoices(date) ==
    Take(Reverse(SelectSeq(upstream, LAMBDA raw : DateOf(raw.purchaseDate) = date)),
         PageSize)

\* rawInvoices.map(...)
ProcessInvoice(raw) ==
    LET parsedDescription == parseDescription(raw.description)
    IN  [code |-> raw.code,
         purchaseDate |-> raw.purchaseDate,
         items |-> parsedDescription.items,
         paymentStatus |-> parsedDescription.paymentStatus,
         returnDate |-> parsedDescription.returnDate]

FetchedInvoices(date) ==
    [i \in 1..Len(ApiInvoices(date)) |-> ProcessInvoice(ApiInvoices(date)[i])]

----------------------------------------------------------------------------
(* The sheet calls of addToGoogleSheet and setupDropdowns *)

BlankRow == [c \in 1..NumCols |-> <<>>]

RECURSIVE DropTrailingEmpty(_)
DropTrailingEmpty(s) ==
    IF s # <<>> /\ s[Len(s)] = <<>>
    THEN DropTrailingEmpty(SubSeq(s, 1, Len(s) - 1))
    ELSE s

\* values.get A:A : column A down to its last non-empty cell
ColumnA(sh) == DropTrailingEmpty([i \in 1..Len(sh) |-> sh[i][ColCode]])

\* the Set of codes below the header
ExistingCodes(values) ==
    IF Len(values) > 1
    THEN {values[i] : i \in 2..Len(values)} \ {<<>>}
    ELSE {}

\* the filter left out: every fetched invoice counts as new
NewInvoicesUnfiltered(invs, codes) == invs

\* invoices.filter(invoice => !existingCodes.has(invoice.code))
NewInvoices(invs, codes) == SelectSeq(invs, LAMBDA invoice : invoice.code \notin codes)

\* the else branch left out: an invoice without items gets no row
InvoiceRowsNoPlaceholder(invoice) ==
    [k \in 1..Len(invoice.items) |->
        <<invoice.code, formatDate(invoice.purchaseDate),
          IF invoice.returnDate # <<>> THEN <<"'">> \o invoice.returnDate ELSE <<>>,
          invoice.items[k].productName, invoice.items[k].work,
          StatusValues[1], <<>>, PeopleValues[1],
          invoice.paymentStatus, <<>>, DelayValues[1], <<>>>>]

\* the status, assignee and delay cells left empty for the dropdowns
InvoiceRowsNoDefaults(invoice) ==
    [k \in 1..(IF Len(invoice.items) > 0 THEN Len(invoice.items) ELSE 1) |->
        <<invoice.code, formatDate(invoice.purchaseDate),
          IF invoice.returnDate # <<>> THEN <<"'">> \o invoice.returnDate ELSE <<>>,
          IF Len(invoice.items) > 0 THEN invoice.items[k].productName ELSE <<>>,
          IF Len(invoice.items) > 0 THEN invoice.items[k].work ELSE <<>>,
          <<>>, <<>>, <<>>,
          invoice.paymentStatus, <<>>, <<>>, <<>>>>]

\* the rows pushed for one invoice
InvoiceRows(invoice) ==
    LET purchaseDate == formatDate(invoice.purchaseDate)
        returnDateAsText ==
            IF invoice.returnDate # <<>> THEN <<"'">> \o invoice.returnDate ELSE <<>>
    IN  IF Len(invoice.items) > 0
        THEN [k \in 1..Len(invoice.items) |->
                 <<invoice.code, purchaseDate, returnDateAsText,
                   invoice.items[k].productName, invoice.items[k].work,
                   StatusValues[1], <<>>, PeopleValues[1],
                   invoice.paymentStatus, <<>>, DelayValues[1], <<>>>>]
        ELSE << <<invoice.code, purchaseDate, returnDateAsText,
                  <<>>, <<>>,
                  StatusValues[1], <<>>, PeopleValues[1],
                  invoice.paymentStatus, <<>>, DelayValues[1], <<>>>> >>

\* newInvoices.forEach(...)
RECURSIVE BuildRows(_)
BuildRows(newInvoices) ==
    IF newInvoices = <<>> THEN <<>>
    ELSE InvoiceRows(Head(newInvoices)) \o BuildRows(Tail(newInvoices))

\* valueInputOption USER_ENTERED: a leading apostrophe marks the cell as text
\* and is not part of the stored value
UserEntered(cell) ==
    IF cell # <<>> /\ Head(cell) = "'" THEN Tail(cell) ELSE cell

\* appendDimension: the new rows go to the end of the sheet
InsertRowsAtEnd(sh, numRows) == sh \o [i \in 1..numRows |-> BlankRow]

\* insertDimension ROWS startIndex 1, endIndex 1 + numRows
InsertRows(sh, numRows) ==
    <<sh[1]>> \o [i \in 1..numRows |-> BlankRow] \o Tail(sh)

\* values.update A2:L(1 + numRows)
FillRows(sh, rws) ==
    [i \in 1..(IF Len(sh) > Len(rws) + 1 THEN Len(sh) ELSE Len(rws) + 1) |->
        IF i \in 2..(Len(rws) + 1)
        THEN [c \in 1..NumCols |-> UserEntered(rws[i - 1][c])]
        ELSE sh[i]]

\* values.get A:L : the rows down to the last row that holds a value
RECURSIVE GetValues(_)
GetValues(sh) ==
    IF sh # <<>> /\ sh[Len(sh)] = BlankRow
    THEN GetValues(SubSeq(sh, 1, Len(sh) - 1))
    ELSE sh

\* setupDropdowns: the rows (1-based sheet row numbers) whose cell in column
\* col is empty although column A holds a code
EmptyCells(values, col) ==
    IF Len(values) > 1
    THEN {i \in 2..Len(values) : values[i][ColCode] # <<>> /\ values[i][col] = <<>>}
    ELSE {}

ScanDefaults(values) ==
    [status |-> EmptyCells(values, ColStatus),
     people |-> EmptyCells(values, ColPeople),
     delay |-> EmptyCells(values, ColDelay)]

NoScan == [status |-> {}, people |-> {}, delay |-> {}]

\* values.batchUpdate of one default value into the listed rows
WriteDefaults(sh, col, at, value) ==
    [i \in 1..Len(sh) |-> IF i \in at THEN [sh[i] EXCEPT ![col] = value] ELSE sh[i]]

----------------------------------------------------------------------------
(* The state machine *)

\* the calls of one run, in program order
SheetSteps == {"client", "verify", "getSheets", "addSheet", "headers", "readKeys",
               "insert", "fill", "format"}
DropdownSteps == {"rules", "scan", "bfStatus", "bfPeople", "bfDelay"}
CallSteps == {"token", "fetch"} \cup SheetSteps \cup DropdownSteps

Active(r) == pc[r] \in CallSteps
Quiet == \A r \in RunIds : ~Active(r)

\* the model follows the sheet while a sync run is at work or still to come
Watched == ~Quiet \/ cycles < MaxCycles

\* the try block a call belongs to: the token request and the fetch in main,
\* the sheet calls of addToGoogleSheet, the calls of setupDropdowns
FaultOf(step) ==
    CASE step \in {"token", "fetch"} -> step
      [] step \in SheetSteps -> "sheet"
      [] step \in DropdownSteps -> "dropdown"

NoLocals(r) ==
    /\ invoices' = [invoices EXCEPT ![r] = <<>>]
    /\ existingCodes' = [existingCodes EXCEPT ![r] = {}]
    /\ rows' = [rows EXCEPT ![r] = <<>>]
    /\ scan' = [scan EXCEPT ![r] = NoScan]

\* main() returns value v
Return(r, v) ==
    /\ pc' = [pc EXCEPT ![r] = "done"]
    /\ result' = [result EXCEPT ![r] = v]
    /\ NoLocals(r)

Goto(r, step) ==
    /\ pc' = [pc EXCEPT ![r] = step]
    /\ UNCHANGED result

\* the process has started: its startup run is about to ask for a token
SyncInit ==
    /\ today = 1
    /\ upstream = <<>>
    /\ sheetExists = FALSE
    /\ sheet = <<>>
    /\ pc = [r \in RunIds |-> IF r = 1 THEN "token" ELSE "idle"]
    /\ invoices = [r \in RunIds |-> <<>>]
    /\ existingCodes = [r \in RunIds |-> {}]
    /\ rows = [r \in RunIds |-> <<>>]
    /\ scan = [r \in RunIds |-> NoScan]
    /\ result = [r \in RunIds |-> "none"]
    /\ fault = [r \in RunIds |-> "none"]
    /\ owed = 0
    /\ cycles = 1
    /\ edits = 0

\* no parseDescription has been called
NoParse ==
    /\ descriptionText = <<>>
    /\ parsed = [items |-> <<>>, paymentStatus |-> <<>>, returnDate |-> <<>>]
    /\ entryPoint = "none"

\* what a read of DailyReportJob returns from a sheet without data rows
NoReported ==
    [invoiceCodes |-> <<>>, dueTodayRows |-> <<>>, overdueRows |-> <<>>,
     dueTodayItems |-> <<>>, overdueItems |-> <<>>, phatSinh |-> <<>>,
     totalRows |-> 0, todayRows |-> 0]

\* no report has read the sheet
NoReport ==
    /\ reportDay = [year |-> 2025, month |-> 3, day |-> 10]
    /\ report = "none"
    /\ reported = NoReported

\* no report run was started
NoRun ==
    /\ runEntry = "none"
    /\ runPc = "idle"
    /\ started = <<>>
    /\ calls = <<>>
    /\ failed = {}

\* a column without a data validation rule
NoRule == [values |-> <<>>, strict |-> FALSE]

\* no call of setupDropdowns is followed
NoSetup ==
    /\ validations = [c \in 1..NumCols |-> NoRule]
    /\ condRules = <<>>
    /\ setups = 0
    /\ afterFirst = [sheet |-> <<>>, validations |-> <<>>, rules |-> {}]

\* no receive date is followed from the sync to the report
NoDateCheck ==
    /\ bought = [year |-> 2025, month |-> 3, day |-> 10, hours |-> 9, minutes |-> 0]
    /\ sheetLocale = "dayFirst"
    /\ wanted = [year |-> 2025, month |-> 3, day |-> 10]
    /\ receiveCell = <<>>
    /\ reconciledText = <<>>
    /\ isTargetDate = FALSE
    /\ datePc = "none"

\* no run of seedCategories is followed
NoSeed ==
    /\ categoryTable = <<>>
    /\ seedPc = "none"
    /\ seedNext = 1
    /\ seedRuns = <<>>

Init == SyncInit /\ NoParse /\ NoReport /\ NoRun /\ NoSetup /\ NoDateCheck /\ NoSeed

(* The environment *)

\* midnight passes
NextDay ==
    /\ Watched
    /\ today < MaxDay
    /\ today' = today + 1
    /\ UNCHANGED <<aside, upstream, sheetExists, sheet, pc, invoices, existingCodes,
                   rows, scan, result, fault, owed, cycles, edits>>

\* the shop enters an invoice in KiotViet
NewInvoice ==
    /\ Watched
    /\ Len(upstream) < MaxInvoices
    /\ \E entry \in Catalogue :
          upstream' = Append(upstream,
              [code |-> entry.code, description |-> entry.description,
               purchaseDate |-> [year |-> Day(today).year, month |-> Day(today).month,
                                 day |-> Day(today).day, hours |-> 9,
                                 minutes |-> Len(upstream)]])
    /\ UNCHANGED <<aside, today, sheetExists, sheet, pc, invoices, existingCodes,
                   rows, scan, result, fault, owed, cycles, edits>>

\* the values a person picks or types in the cells people edit
HumanValues(col) ==
    CASE col = ColStatus -> {<<>>, StatusValues[2]}
      [] col = ColTime   -> {<<"2h">>}
      [] col = ColPeople -> {<<>>, PeopleValues[2]}
      [] col = ColDelay  -> {<<>>, DelayValues[2]}

\* a person edits the status, time, assignee or delay cell of a data row
HumanEdit ==
    /\ Watched
    /\ edits < MaxEdits
    /\ sheetExists
    /\ \E i \in 2..Len(sheet), col \in {ColStatus, ColTime, ColPeople, ColDelay} :
          \E v \in HumanValues(col) :
              /\ sheet[i][col] # v
              /\ sheet' = [sheet EXCEPT ![i][col] = v]
    /\ edits' = edits + 1
    /\ UNCHANGED <<aside, today, upstream, sheetExists, pc, invoices, existingCodes,
                   rows, scan, result, fault, owed, cycles>>

(* The scheduler *)

\* the cron callback (and, in Init, the run at startup) calls runInvoiceSync
CronTick ==
    /\ cycles < MaxCycles
    /\ cycles' = cycles + 1
    /\ \E r \in RunIds :
          /\ ~Active(r)
          /\ \A q \in RunIds : q < r => Active(q)
          /\ pc' = [pc EXCEPT ![r] = "token"]
          /\ result' = [result EXCEPT ![r] = "none"]
          /\ fault' = [fault EXCEPT ![r] = "none"]
    /\ UNCHANGED <<aside, today, upstream, sheetExists, sheet, invoices, existingCodes,
                   rows, scan, owed, edits>>

(* main, fetchInvoices, addToGoogleSheet, setupDropdowns *)

\* getKiotVietAccessToken()
Token(r) ==
    /\ pc[r] = "token"
    /\ Goto(r, "fetch")
    /\ UNCHANGED <<aside, today, upstream, sheetExists, sheet, invoices, existingCodes,
                   rows, scan, fault, owed, cycles, edits>>

\* fetchInvoices: axios.get for today's date, then the map over the result
Fetch(r) ==
    /\ pc[r] = "fetch"
    /\ invoices' = [invoices EXCEPT ![r] = FetchedInvoices(Day(today))]
    /\ Goto(r, "client")
    /\ UNCHANGED <<aside, today, upstream, sheetExists, sheet, existingCodes,
                   rows, scan, fault, owed, cycles, edits>>

\* getGoogleClient()
Client(r) ==
    /\ pc[r] = "client"
    /\ Goto(r, "verify")
    /\ UNCHANGED <<aside, today, upstream, sheetExists, sheet, invoices, existingCodes,
                   rows, scan, fault, owed, cycles, edits>>

\* spreadsheets.get: the spreadsheet is accessible
Verify(r) ==
    /\ pc[r] = "verify"
    /\ Goto(r, "getSheets")
    /\ UNCHANGED <<aside, today, upstream, sheetExists, sheet, invoices, existingCodes,
                   rows, scan, fault, owed, cycles, edits>>

\* spreadsheets.get: does the sheet exist
GetSheets(r) ==
    /\ pc[r] = "getSheets"
    /\ Goto(r, IF sheetExists THEN "readKeys" ELSE "addSheet")
    /\ UNCHANGED <<aside, today, upstream, sheetExists, sheet, invoices, existingCodes,
                   rows, scan, fault, owed, cycles, edits>>

\* batchUpdate addSheet (the API rejects a title that is already taken)
AddSheet(r) ==
    /\ pc[r] = "addSheet"
    /\ ~sheetExists
    /\ sheetExists' = TRUE
    /\ sheet' = <<BlankRow>>
    /\ Goto(r, "headers")
    /\ UNCHANGED <<aside, today, upstream, invoices, existingCodes,
                   rows, scan, fault, owed, cycles, edits>>

\* values.update A1:L1 with the headers
WriteHeaders(r) ==
    /\ pc[r] = "headers"
    /\ sheet' = [sheet EXCEPT ![1] = Headers]
    /\ Goto(r, "readKeys")
    /\ UNCHANGED <<aside, today, upstream, sheetExists, invoices, existingCodes,
                   rows, scan, fault, owed, cycles, edits>>

\* values.get A:A, the filter, and the preparation of the rows
ReadKeys(r) ==
    /\ pc[r] = "readKeys"
    /\ LET codes == ExistingCodes(ColumnA(sheet))
           newInvoices == NewInvoices(invoices[r], codes)
       IN  IF Len(newInvoices) = 0
           THEN Return(r, TRUE)
           ELSE /\ existingCodes' = [existingCodes EXCEPT ![r] = codes]
                /\ rows' = [rows EXCEPT ![r] = BuildRows(newInvoices)]
                /\ Goto(r, "insert")
                /\ UNCHANGED <<invoices, scan>>
    /\ UNCHANGED <<aside, today, upstream, sheetExists, sheet, fault, owed, cycles, edits>>

\* STEP 1: batchUpdate insertDimension
Insert(r) ==
    /\ pc[r] = "insert"
    /\ sheet' = InsertRows(sheet, Len(rows[r]))
    /\ Goto(r, "fill")
    /\ UNCHANGED <<aside, today, upstream, sheetExists, invoices, existingCodes,
                   rows, scan, fault, owed, cycles, edits>>

\* STEP 2: values.update of the inserted range
Fill(r) ==
    /\ pc[r] = "fill"
    /\ sheet' = FillRows(sheet, rows[r])
    /\ Goto(r, "format")
    /\ UNCHANGED <<aside, today, upstream, sheetExists, invoices, existingCodes,
                   rows, scan, fault, owed, cycles, edits>>

\* batchUpdate of the cell formats of the new rows
Format(r) ==
    /\ pc[r] = "format"
    /\ Goto(r, "rules")
    /\ UNCHANGED <<aside, today, upstream, sheetExists, sheet, invoices, existingCodes,
                   rows, scan, fault, owed, cycles, edits>>

\* setupDropdowns: batchUpdate of the validation and colour rules
Rules(r) ==
    /\ pc[r] = "rules"
    /\ Goto(r, "scan")
    /\ UNCHANGED <<aside, today, upstream, sheetExists, sheet, invoices, existingCodes,
                   rows, scan, fault, owed, cycles, edits>>

\* the first backfill call that has something to write, from step on
NextBackfill(lists, step) ==
    CASE step = "bfStatus" /\ lists.status # {} -> "bfStatus"
      [] step \in {"bfStatus", "bfPeople"} /\ lists.people # {}
            /\ (step = "bfPeople" \/ lists.status = {}) -> "bfPeople"
      [] lists.delay # {}
            /\ (step = "bfDelay" \/ lists.people = {})
            /\ (step # "bfStatus" \/ lists.status = {}) -> "bfDelay"
      [] OTHER -> "done"

AfterBackfill(r, lists, step) ==
    IF NextBackfill(lists, step) = "done"
    THEN Return(r, TRUE)
    ELSE /\ Goto(r, NextBackfill(lists, step))
         /\ scan' = [scan EXCEPT ![r] = lists]
         /\ UNCHANGED <<invoices, existingCodes, rows>>

\* setupDropdowns: values.get A:L and the three lists of updates
Scan(r) ==
    /\ pc[r] = "scan"
    /\ AfterBackfill(r, ScanDefaults(GetValues(sheet)), "bfStatus")
    /\ UNCHANGED <<aside, today, upstream, sheetExists, sheet, fault, owed, cycles, edits>>

\* setupDropdowns: values.batchUpdate of the default status
BackfillStatus(r) ==
    /\ pc[r] = "bfStatus"
    /\ sheet' = WriteDefaults(sheet, ColStatus, scan[r].status, StatusValues[1])
    /\ AfterBackfill(r, scan[r], "bfPeople")
    /\ UNCHANGED <<aside, today, upstream, sheetExists, fault, owed, cycles, edits>>

\* setupDropdowns: values.batchUpdate of the default assignee
BackfillPeople(r) ==
    /\ pc[r] = "bfPeople"
    /\ sheet' = WriteDefaults(sheet, ColPeople, scan[r].people, PeopleValues[1])
    /\ AfterBackfill(r, scan[r], "bfDelay")
    /\ UNCHANGED <<aside, today, upstream, sheetExists, fault, owed, cycles, edits>>

\* setupDropdowns: values.batchUpdate of the default delay
BackfillDelay(r) ==
    /\ pc[r] = "bfDelay"
    /\ sheet' = WriteDefaults(sheet, ColDelay, scan[r].delay, DelayValues[1])
    /\ Return(r, TRUE)
    /\ UNCHANGED <<aside, today, upstream, sheetExists, fault, owed, cycles, edits>>

\* a catch in fetchInvoices that logs and goes on with what it has
FailOutcomeSwallowFetch(step) ==
    IF step \in DropdownSteps \cup {"fetch"} THEN TRUE ELSE FALSE

\* what main() returns when the call at step throws: setupDropdowns catches
\* and logs, every other error reaches the catch of main
FailOutcome(step) == IF step \in DropdownSteps THEN TRUE ELSE FALSE

\* the call the run is about to make throws
Fail(r) ==
    /\ pc[r] \in CallSteps
    /\ fault' = [fault EXCEPT ![r] = FaultOf(pc[r])]
    /\ Return(r, FailOutcome(pc[r]))
    /\ owed' = IF FailOutcome(pc[r]) THEN owed ELSE Len(upstream)
    /\ UNCHANGED <<aside, today, upstream, sheetExists, sheet, cycles, edits>>

Step(r) ==
    \/ Token(r)
    \/ Fetch(r)
    \/ Client(r)
    \/ Verify(r)
    \/ GetSheets(r)
    \/ AddSheet(r)
    \/ WriteHeaders(r)
    \/ ReadKeys(r)
    \/ Insert(r)
    \/ Fill(r)
    \/ Format(r)
    \/ Rules(r)
    \/ Scan(r)
    \/ BackfillStatus(r)
    \/ BackfillPeople(r)
    \/ BackfillDelay(r)
    \/ Fail(r)

\* the scheduler as written, within one day: a tick starts a run whatever the
\* earlier runs do
Next ==
    \/ NewInvoice
    \/ HumanEdit
    \/ CronTick
    \/ \E r \in RunIds : Step(r)

Spec == Init /\ [][Next]_vars

\* runs that do not overlap, on a sheet nobody edits while a run is at work.
\* A run reads the clock and the API in fetchInvoices only, so days and new
\* invoices are let in while no run is past its fetch
SerialTick == Quiet /\ CronTick
QuietEdit == Quiet /\ HumanEdit
BeforeFetch == \A r \in RunIds : pc[r] \in {"idle", "done", "token", "fetch"}
DayPasses == BeforeFetch /\ NextDay
InvoiceArrives == BeforeFetch /\ NewInvoice

NextSerial ==
    \/ DayPasses
    \/ InvoiceArrives
    \/ QuietEdit
    \/ SerialTick
    \/ \E r \in RunIds : Step(r)

SpecSerial == Init /\ [][NextSerial]_vars

----------------------------------------------------------------------------
(* Vocabulary of the properties *)

\* the invoice codes in column A below the header
SheetCodes(sh) == {sh[i][ColCode] : i \in 2..Len(sh)} \ {<<>>}

\* the records of batch B whose code is not in the key set E
Kept(B, E) == SelectSeq(B, LAMBDA b : b.code \notin E)

\* the number of rows an invoice expands to
Size(inv) == IF Len(inv.items) = 0 THEN 1 ELSE Len(inv.items)

\* the number of rows of the first j - 1 invoices of a batch
RECURSIVE Offset(_, _)
Offset(B, j) == IF j <= 1 THEN 0 ELSE Offset(B, j - 1) + Size(B[j - 1])

Total(B) == Offset(B, Len(B) + 1)

\* run r makes the call at step and the call returns
Does(r, step) == pc[r] = step /\ pc'[r] # step /\ fault'[r] = fault[r]

\* run r makes the call at step and the call throws
Throws(r, step) == pc[r] = step /\ fault[r] = "none" /\ fault'[r] # "none"

\* the cells of a row that identify the invoice item it was filled with
Core(row) == <<row[ColCode], row[ColReceive], row[ColReturn], row[ColItem], row[ColWork]>>

Copies(sh, core) == Cardinality({i \in 2..Len(sh) : Core(sh[i]) = core})

HD001 == <<"HD001">>
HD002 == <<"HD002">>

----------------------------------------------------------------------------
(* C1: the key set E of a run is the set of non-empty codes of column A below
   the header; the run returns without inserting exactly when every record of
   its batch B has its code in E; otherwise it inserts Total(Kept(B, E)) rows
   and the codes it writes are exactly the codes of the records of B that are
   not in E. *)
C1_SyncDedup ==
    [][\A r \in RunIds :
        /\ Does(r, "readKeys") /\ pc'[r] = "insert" =>
              /\ existingCodes'[r] = SheetCodes(sheet)
              /\ Kept(invoices[r], SheetCodes(sheet)) # <<>>
        /\ Does(r, "readKeys") /\ pc'[r] = "done" =>
              /\ \A k \in 1..Len(invoices[r]) : invoices[r][k].code \in SheetCodes(sheet)
              /\ sheet' = sheet
        /\ Does(r, "insert") =>
              Len(sheet') = Len(sheet) + Total(Kept(invoices[r], existingCodes[r]))
        /\ Does(r, "fill") =>
              LET n == Total(Kept(invoices[r], existingCodes[r]))
              IN  /\ Len(sheet') >= n + 1
                  /\ {sheet'[i][ColCode] : i \in 2..(n + 1)}
                        = {invoices[r][k].code : k \in 1..Len(invoices[r])}
                             \ existingCodes[r]
                  /\ \A i \in (n + 2)..Len(sheet') : sheet'[i] = sheet[i]]_vars

\* a run that read E = {HD001}, fetched HD002 and HD001, and has written HD002
C1_Witness ==
    \E r \in RunIds :
        /\ pc[r] = "format"
        /\ existingCodes[r] = {HD001}
        /\ Len(invoices[r]) = 2
        /\ invoices[r][1].code = HD002
        /\ invoices[r][2].code = HD001
        /\ Len(sheet) >= 3
        /\ sheet[2][ColCode] = HD002
        /\ sheet[3][ColCode] = HD001

(* C2: when a run that overlaps no other run writes its rows, the sheet holds
   exactly one expansion of every invoice the run has written: Size(invoice)
   rows carry its code, also when the batch holds the same code twice or a
   record without a code. *)
C2_AtMostOnce ==
    [][\A r \in RunIds :
        Does(r, "fill") =>
            LET new == Kept(invoices[r], existingCodes[r])
            IN  \A j \in 1..Len(new) :
                    Cardinality({i \in 2..Len(sheet') : sheet'[i][ColCode] = new[j].code})
                        = Size(new[j])]_vars

(* C3: whatever the interleaving of the runs' sheet calls, the code, dates, item
   and work of a filled row stay in the sheet: no step lowers the number of rows
   that carry them. *)
C3_OnlyAddsRows ==
    [][\A i \in 2..Len(sheet) :
          sheet[i][ColReceive] # <<>> =>
              Copies(sheet', Core(sheet[i])) >= Copies(sheet, Core(sheet[i]))]_vars

(* C4: the rows a run writes are, invoice by invoice, max(1, number of items)
   rows that all carry the invoice's code, one receive date and the invoice's
   return date; an invoice without items gets one row whose item and work cells
   are empty; the run inserts as many rows as these expansions need. *)
C4_RowExpansion ==
    [][\A r \in RunIds :
        LET new == Kept(invoices[r], existingCodes[r])
        IN  /\ Does(r, "insert") => Len(sheet') - Len(sheet) = Total(new)
            /\ Does(r, "fill") =>
                  /\ Len(rows[r]) = Total(new)
                  /\ Len(sheet') >= Total(new) + 1
                  /\ \A j \in 1..Len(new) :
                        LET first == sheet'[1 + Offset(new, j) + 1]
                        IN  /\ Size(new[j]) >= 1
                            /\ Size(new[j]) = Len(new[j].items) \/ Len(new[j].items) = 0
                            /\ first[ColReceive] # <<>>
                            /\ \A k \in 1..Size(new[j]) :
                                  LET row == sheet'[1 + Offset(new, j) + k]
                                  IN  /\ row[ColCode] = new[j].code
                                      /\ row[ColReceive] = first[ColReceive]
                                      /\ row[ColReturn] = new[j].returnDate
                            /\ Len(new[j].items) = 0 =>
                                  /\ first[ColItem] = <<>>
                                  /\ first[ColWork] = <<>>]_vars

\* a run has written HD002 (no items, one placeholder row) above HD001 (two
\* items, two rows with the same dates)
C4_Witness ==
    \E r \in RunIds :
        /\ pc[r] = "format"
        /\ Len(rows[r]) = 3
        /\ Len(sheet) >= 4
        /\ sheet[2][ColCode] = HD002 /\ sheet[2][ColItem] = <<>> /\ sheet[2][ColWork] = <<>>
        /\ sheet[3][ColCode] = HD001 /\ sheet[4][ColCode] = HD001
        /\ sheet[3][ColReturn] = <<"1", "5", "/", "3">>
        /\ sheet[3][ColReturn] = sheet[4][ColReturn]
        /\ sheet[3][ColReceive] = sheet[4][ColReceive]

\* the numbered lines of a description, in line order
NumberedLines(description) ==
    SelectSeq(Split(description, "\n"), LAMBDA line : IsNumbered(Trim(line)))

\* the description of the upstream invoice with this purchase date
DescriptionAt(purchaseDate) ==
    (CHOOSE raw \in {upstream[k] : k \in 1..Len(upstream)} :
        raw.purchaseDate = purchaseDate).description

(* C5: the items of a fetched invoice are the items of the numbered lines of its
   description in line order; the rows written for an invoice are contiguous and
   carry its items in that order; the invoices of the batch keep their order in
   the written block. *)
C5_OrderPreserved ==
    [][\A r \in RunIds :
        /\ Does(r, "fetch") =>
              \A k \in 1..Len(invoices'[r]) :
                  LET numbered == NumberedLines(DescriptionAt(invoices'[r][k].purchaseDate))
                      items == invoices'[r][k].items
                  IN  /\ Len(items) = Len(numbered)
                      /\ \A i \in 1..Len(items) : items[i] = ItemOfLine(numbered[i])
        /\ Does(r, "fill") =>
              LET new == Kept(invoices[r], existingCodes[r])
              IN  /\ Len(sheet') >= Total(new) + 1
                  /\ \A j \in 1..Len(new) :
                        /\ \A k \in 1..Size(new[j]) :
                              sheet'[1 + Offset(new, j) + k][ColCode] = new[j].code
                        /\ \A k \in 1..Len(new[j].items) :
                              LET row == sheet'[1 + Offset(new, j) + k]
                              IN  /\ row[ColItem] = new[j].items[k].productName
                                  /\ row[ColWork] = new[j].items[k].work]_vars

\* HD001, described as "2.B+u / x / 1.A+g", has been written as the rows B, A
C5_Witness ==
    \E r \in RunIds :
        /\ pc[r] = "format"
        /\ Len(sheet) >= 3
        /\ sheet[2][ColCode] = HD001 /\ sheet[2][ColItem] = <<"B">> /\ sheet[2][ColWork] = <<"u">>
        /\ sheet[3][ColCode] = HD001 /\ sheet[3][ColItem] = <<"A">> /\ sheet[3][ColWork] = <<"g">>

\* the steps of a run from its row insertion on
InsertSteps == {"insert", "fill", "format"} \cup DropdownSteps

\* run r takes a step (its call returns or throws)
Moves(r) == pc[r] \in CallSteps /\ pc'[r] # pc[r]

\* row after is row before, but for empty status, assignee and delay cells of
\* a row with an invoice code, which may have received their default value
SameButDefaults(before, after) ==
    \A c \in 1..NumCols :
        \/ after[c] = before[c]
        \/ /\ before[ColCode] # <<>>
           /\ before[c] = <<>>
           /\ \/ c = ColStatus /\ after[c] = StatusValues[1]
              \/ c = ColPeople /\ after[c] = PeopleValues[1]
              \/ c = ColDelay /\ after[c] = DelayValues[1]

(* C6 as stated: the insertion of a run's n rows keeps the header and moves
   every row below it down by exactly n, the fill puts the run's rows in rows
   2..n+1, and no later step of the run changes the header or the content of a
   row. *)
C6_InsertionKeepsRows ==
    [][\A r \in RunIds :
        LET n == Len(rows[r])
        IN  /\ Does(r, "insert") =>
                  /\ n >= 1
                  /\ Len(sheet') = Len(sheet) + n
                  /\ sheet'[1] = sheet[1]
                  /\ \A i \in 2..Len(sheet) : sheet'[i + n] = sheet[i]
            /\ Does(r, "fill") =>
                  /\ Len(sheet') = Len(sheet)
                  /\ sheet'[1] = sheet[1]
                  /\ \A i \in 2..(n + 1) :
                        /\ sheet'[i][ColCode] = rows[r][i - 1][ColCode]
                        /\ sheet'[i][ColReceive] # <<>>
                  /\ \A i \in (n + 2)..Len(sheet) : sheet'[i] = sheet[i]
            /\ Moves(r) /\ pc[r] \in InsertSteps \ {"insert", "fill"} =>
                  sheet' = sheet]_vars

(* C6 amended: as above, except that the steps after the fill may set empty
   status, assignee and delay cells of rows with an invoice code to their
   default values; they change no other cell, and neither the number nor the
   order of the rows. *)
C6_InsertionKeepsRowsButDefaults ==
    [][\A r \in RunIds :
        LET n == Len(rows[r])
        IN  /\ Does(r, "insert") =>
                  /\ n >= 1
                  /\ Len(sheet') = Len(sheet) + n
                  /\ sheet'[1] = sheet[1]
                  /\ \A i \in 2..Len(sheet) : sheet'[i + n] = sheet[i]
            /\ Does(r, "fill") =>
                  /\ Len(sheet') = Len(sheet)
                  /\ sheet'[1] = sheet[1]
                  /\ \A i \in 2..(n + 1) :
                        /\ sheet'[i][ColCode] = rows[r][i - 1][ColCode]
                        /\ sheet'[i][ColReceive] # <<>>
                  /\ \A i \in (n + 2)..Len(sheet) : sheet'[i] = sheet[i]
            /\ Moves(r) /\ pc[r] \in InsertSteps \ {"insert", "fill"} =>
                  /\ Len(sheet') = Len(sheet)
                  /\ sheet'[1] = sheet[1]
                  /\ \A i \in 2..Len(sheet) : SameButDefaults(sheet[i], sheet'[i])]_vars

\* a run has returned true after writing HD002 above the rows of HD001, and a
\* status cell a person had emptied holds the default again
C6_Witness ==
    \E r \in RunIds :
        /\ pc[r] = "done" /\ result[r] = TRUE /\ fault[r] = "none"
        /\ edits = 1
        /\ Len(sheet) = 4
        /\ sheet[1] = Headers
        /\ sheet[2][ColCode] = HD002
        /\ sheet[3][ColCode] = HD001 /\ sheet[3][ColItem] = <<"B">>
        /\ sheet[4][ColCode] = HD001 /\ sheet[4][ColItem] = <<"A">>
        /\ \A i \in 2..4 : sheet[i][ColStatus] = StatusValues[1]

(* C7: after a run that aborted, every data row of the sheet is a written row:
   no inserted row is left blank. *)
C7_AllOrNothing ==
    \A r \in RunIds :
        pc[r] = "done" /\ result[r] = FALSE /\ Quiet =>
            \A i \in 2..Len(sheet) : sheet[i][ColReceive] # <<>>

(* C8: a run in which a call threw has returned false. *)
C8_FailureAborts ==
    \A r \in RunIds : fault[r] # "none" => pc[r] = "done" /\ result[r] = FALSE

(* C9: the token request and the invoice fetch of a run leave the sheet as it
   is, and when one of them throws the run is over, without a further call, and
   has returned false. *)
C9_FailedFetchLeavesSheet ==
    [][\A r \in RunIds :
        /\ Moves(r) /\ pc[r] \in {"token", "fetch"} =>
              /\ sheet' = sheet
              /\ sheetExists' = sheetExists
        /\ Throws(r, "token") \/ Throws(r, "fetch") =>
              /\ pc'[r] = "done"
              /\ result'[r] = FALSE
        /\ pc[r] = "done" /\ pc'[r] # "done" =>
              /\ pc'[r] = "token"
              /\ cycles' = cycles + 1]_vars

\* the fetch of a run threw and the run has returned false
C9_Witness ==
    \E r \in RunIds :
        /\ fault[r] = "fetch" /\ pc[r] = "done" /\ result[r] = FALSE
        /\ Len(upstream) >= 1

(* C10: once a run has returned true, every invoice (with a code) that was
   upstream when an earlier run failed is in the sheet. *)
C10_Recovery ==
    \A r \in RunIds :
        pc[r] = "done" /\ result[r] = TRUE /\ Quiet =>
            \A k \in 1..owed :
                upstream[k].code # <<>> => upstream[k].code \in SheetCodes(sheet)

\* the steps of a run between its read of the existing keys and its row write
KeysToWrite == {"insert", "fill"}

(* C11: the runs the scheduler starts do not overlap: no two runs are between
   their read of the existing keys and their row write at the same time. *)
C11_NoOverlap ==
    \A r \in RunIds : \A q \in RunIds :
        r # q => ~(pc[r] \in KeysToWrite /\ pc[q] \in KeysToWrite)

----------------------------------------------------------------------------
(* parseDescription of src/index.js *)

IndexMarker == <<"H", "e.", "n", " ", "t", "r", "a?", ":">>

\* s.replace(p, '') for a string p: the first occurrence of p removed
RemoveLiteral(s, p) ==
    LET n == Len(p)
        at == {i \in 1..(Len(s) - n + 1) : SubSeq(s, i, i + n - 1) = p}
    IN  IF at = {} THEN s
        ELSE LET i == CHOOSE k \in at : \A j \in at : k <= j
             IN  SubSeq(s, 1, i - 1) \o SubSeq(s, i + n, Len(s))

\* one iteration of lines.forEach in src/index.js
ParseLineIndex(res, line) ==
    CASE IsNumbered(Trim(line)) ->
            [res EXCEPT !.items = Append(@, ItemOfLine(line))]
      [] ~IsNumbered(Trim(line)) /\ Trim(line) = PaidMarker ->
            [res EXCEPT !.paymentStatus = Paid]
      [] ~IsNumbered(Trim(line)) /\ Trim(line) = UnpaidMarker ->
            [res EXCEPT !.paymentStatus = Unpaid]
      [] /\ ~IsNumbered(Trim(line))
         /\ Trim(line) \notin {PaidMarker, UnpaidMarker}
         /\ StartsWith(Trim(line), IndexMarker) ->
            [res EXCEPT !.returnDate = Trim(RemoveLiteral(line, IndexMarker))]
      [] OTHER -> res

RECURSIVE ParseLinesIndex(_, _)
ParseLinesIndex(res, lines) ==
    IF lines = <<>> THEN res
    ELSE ParseLinesIndex(ParseLineIndex(res, Head(lines)), Tail(lines))

parseDescriptionIndex(description) ==
    ParseLinesIndex([items |-> <<>>, paymentStatus |-> <<>>, returnDate |-> <<>>],
                    IF description = <<>> THEN <<>> ELSE Lines(description))

----------------------------------------------------------------------------
(* The description texts handed to the parsers *)

MaxLines == 2

\* lines of an invoice description as the shop types them
LinePool ==
    { <<>>,
      <<" ">>,
      <<"x">>,
      <<"1", ".", "A", "+", "u">>,
      <<" ", "1", "2", ".", " ", "B", "\r">>,
      <<"2", ".", "C", " ", "+", " ", "v", "+", "w">>,
      <<"3", ".">>,
      <<"1", ".", "DD", "T", "T">>,
      <<"1", "A", ".">>,
      <<".", "1">>,
      <<"x", "+", "1", ".">>,
      <<"DD", "T", "T">>,
      <<" ", "C", "T", "T", " ">>,
      <<"C", "T", "T">>,
      <<"c", "t", "t">>,
      <<"DD", "T", "T", " ", "x">>,
      <<"H", "e.", "n", " ", "t", "r", "a?", ":", " ", "1", "5", "/", "3">>,
      <<" ", "H", "E.", "N", " ", "T", "R", "A?", ":", "7", "/", "3", " ">>,
      <<"h", "e.", "n", " ", "t", "r", "a?", ":", " ", "1", "0", "/", "3">>,
      <<"H", "e.", "n", " ", "t", "r", "a?", ":">>,
      <<"H", "e.", "n", " ", "t", "r", "a?", " ", "2", "/", "3">>,
      <<"x", " ", "H", "e.", "n", " ", "t", "r", "a?", ":", " ", "1", "/", "3">> }

\* lines.join('\n')
RECURSIVE JoinLines(_)
JoinLines(ls) ==
    IF ls = <<>> THEN <<>>
    ELSE IF Len(ls) = 1 THEN ls[1]
    ELSE ls[1] \o <<"\n">> \o JoinLines(Tail(ls))

Descriptions ==
    {JoinLines(ls) : ls \in UNION {[1..n -> LinePool] : n \in 0..MaxLines}}

\* workMigrationJob.parseDescription is called with the text
ParseJob ==
    /\ entryPoint = "none"
    /\ parsed' = parseDescription(descriptionText)
    /\ entryPoint' = "job"
    /\ UNCHANGED <<syncVars, reportVars, further, descriptionText>>

\* parseDescription of src/index.js is called with the text
ParseIndex ==
    /\ entryPoint = "none"
    /\ parsed' = parseDescriptionIndex(descriptionText)
    /\ entryPoint' = "index"
    /\ UNCHANGED <<syncVars, reportVars, further, descriptionText>>

InitParse ==
    /\ SyncInit
    /\ NoReport
    /\ NoRun
    /\ NoSetup
    /\ NoDateCheck
    /\ NoSeed
    /\ descriptionText \in Descriptions
    /\ parsed = [items |-> <<>>, paymentStatus |-> <<>>, returnDate |-> <<>>]
    /\ entryPoint = "none"

NextParse == ParseJob \/ ParseIndex

SpecParse == InitParse /\ [][NextParse]_vars

----------------------------------------------------------------------------
(* Vocabulary of the parse properties: the text read without the parser *)

Blank == {" ", "\t", "\r", "\n"}

\* s without its leading and trailing white space
Stripped(s) ==
    LET ink == {i \in 1..Len(s) : s[i] \notin Blank}
    IN  IF ink = {} THEN <<>>
        ELSE SubSeq(s, CHOOSE i \in ink : \A j \in ink : i <= j,
                       CHOOSE i \in ink : \A j \in ink : i >= j)

\* the positions of character c in s
Places(s, c) == {i \in 1..Len(s) : s[i] = c}

RECURSIVE Ascending(_)
Ascending(S) ==
    IF S = {} THEN <<>>
    ELSE LET m == CHOOSE i \in S : \A j \in S : i <= j
         IN  <<m>> \o Ascending(S \ {m})

\* the pieces of s between the occurrences of c, in order
Pieces(s, c) ==
    LET cuts == Ascending(Places(s, c) \cup {0, Len(s) + 1})
    IN  [k \in 1..(Len(cuts) - 1) |-> SubSeq(s, cuts[k] + 1, cuts[k + 1] - 1)]

\* s begins with one or more digits followed by a period
BeginsNumbered(s) ==
    \E n \in 1..(Len(s) - 1) :
        /\ \A i \in 1..n : s[i] \in {"0", "1", "2", "3", "4", "5", "6", "7", "8", "9"}
        /\ s[n + 1] = "."

\* the lines of the text that are numbered entries, in order
NumberedOf(t) ==
    SelectSeq(Pieces(t, "\n"), LAMBDA l : BeginsNumbered(Stripped(l)))

(* C12: for every description text, each parser returns a result, and the number
   of items in it is the number of lines of the text that, trimmed, begin with
   one or more digits followed by a period; the other lines add no item. *)
C12_ItemCount ==
    entryPoint # "none" =>
        /\ DOMAIN parsed = {"items", "paymentStatus", "returnDate"}
        /\ Len(parsed.items) = Len(NumberedOf(descriptionText))

\* a text of a numbered line and a line that matches no rule has been parsed by
\* workMigrationJob.parseDescription into one item
C12_Witness ==
    /\ entryPoint = "job"
    /\ descriptionText = <<"1", "A", ".", "\n", "1", ".", "A", "+", "u">>
    /\ Len(parsed.items) = 1

\* s, which begins with a number and a period, without them
WithoutNumber(s) ==
    LET n == CHOOSE k \in 1..(Len(s) - 1) :
                 /\ \A i \in 1..k : s[i] \in {"0", "1", "2", "3", "4", "5", "6", "7", "8", "9"}
                 /\ s[k + 1] = "."
    IN  SubSeq(s, n + 2, Len(s))

(* C13: the k-th item comes from the k-th numbered line: its productName is the
   text before the first '+', without the leading "N.", trimmed; its work is
   the trimmed text between the first and the second '+', and is empty when
   the line has no '+'; what follows a second '+' is in neither. *)
C13_ItemFields ==
    entryPoint # "none" =>
        LET numbered == NumberedOf(descriptionText)
        IN  /\ Len(parsed.items) = Len(numbered)
            /\ \A k \in 1..Len(numbered) :
                  LET segs == Pieces(numbered[k], "+")
                  IN  /\ parsed.items[k].productName
                            = Stripped(WithoutNumber(Stripped(segs[1])))
                      /\ parsed.items[k].work
                            = IF Len(segs) > 1 THEN Stripped(segs[2]) ELSE <<>>

\* "2.C + v+w" has been parsed into the item (C, v), and "3." into an item
\* with no name and no work
C13_Witness ==
    /\ entryPoint = "job"
    /\ descriptionText
          = <<"2", ".", "C", " ", "+", " ", "v", "+", "w", "\n", "3", ".">>
    /\ parsed.items = << [productName |-> <<"C">>, work |-> <<"v">>],
                         [productName |-> <<>>, work |-> <<>>] >>

\* the lines of the text that are a payment marker: exactly "DDTT" or "CTT"
\* once trimmed, in capital letters
MarkersOf(t) ==
    SelectSeq(Pieces(t, "\n"),
              LAMBDA l : Stripped(l) \in {<<"DD", "T", "T">>, <<"C", "T", "T">>})

(* C14: the payment status is paid when the last marker line of the text is
   "DDTT", unpaid when it is "CTT", and empty when the text has no marker line;
   a numbered line, a marker in small letters and a marker followed by other
   text are no marker lines. *)
C14_PaymentStatus ==
    entryPoint # "none" =>
        LET markers == MarkersOf(descriptionText)
        IN  parsed.paymentStatus
               = IF markers = <<>> THEN <<>>
                 ELSE IF Stripped(markers[Len(markers)]) = <<"DD", "T", "T">>
                      THEN Paid
                      ELSE Unpaid

\* "DDTT" then " CTT " has been parsed as unpaid
C14_Witness ==
    /\ entryPoint = "job"
    /\ descriptionText = <<"DD", "T", "T", "\n", " ", "C", "T", "T", " ">>
    /\ parsed.paymentStatus = Unpaid

\* "1.DDTT" has been parsed as an item, with no payment status
C14_WitnessNumbered ==
    /\ entryPoint = "job"
    /\ descriptionText = <<"1", ".", "DD", "T", "T">>
    /\ parsed.paymentStatus = <<>>
    /\ Len(parsed.items) = 1

\* the lines of the text that start, once trimmed, with the return-date marker
\* in any letter case
ReturnLinesOf(t) ==
    SelectSeq(Pieces(t, "\n"),
              LAMBDA l : LET low == LowerCase(Stripped(l))
                         IN  /\ Len(low) >= 8
                             /\ SubSeq(low, 1, 8) = <<"h", "e.", "n", " ", "t", "r", "a?", ":">>)

\* the return date the text asks for: the rest, trimmed, of its last return line
ReturnDateOf(t) ==
    LET lines == ReturnLinesOf(t)
    IN  IF lines = <<>> THEN <<>>
        ELSE LET last == Stripped(lines[Len(lines)])
             IN  Stripped(SubSeq(last, 9, Len(last)))

(* C15: whichever parseDescription of the repository parses the text, returnDate
   is the rest, trimmed, of the last line that starts with the marker
   "He.n tra?:" in any letter case. *)
C15_ReturnDate ==
    entryPoint # "none" => parsed.returnDate = ReturnDateOf(descriptionText)

\* the same for workMigrationJob.parseDescription alone
C15_ReturnDateJob ==
    entryPoint = "job" => parsed.returnDate = ReturnDateOf(descriptionText)

\* "he.n tra?: 10/3" has been parsed by src/index.js into no return date
C15_LowerCaseLost ==
    /\ entryPoint = "index"
    /\ descriptionText = <<"h", "e.", "n", " ", "t", "r", "a?", ":", " ", "1", "0", "/", "3">>
    /\ parsed.returnDate = <<>>

----------------------------------------------------------------------------
(* DailyReportJob: what values.get returns *)

\* values.get of columns A..lastCol: each row down to its last non-empty cell,
\* the rows down to the last row that holds a value
ValuesRange(sh, lastCol) ==
    DropTrailingEmpty([i \in 1..Len(sh) |-> DropTrailingEmpty(SubSeq(sh[i], 1, lastCol))])

\* row[k - 1] of the source: undefined, like '', is falsy
Cell(row, k) == IF k <= Len(row) THEN row[k] ELSE <<>>

\* parseInt(s, 10) of a string of digits
RECURSIVE ToNumber(_)
ToNumber(s) ==
    IF s = <<>> THEN 0
    ELSE 10 * ToNumber(SubSeq(s, 1, Len(s) - 1))
            + (CHOOSE d \in 0..9 : Digits[d + 1] = s[Len(s)])

\* parseInt(s): the number the string starts with, -1 for NaN
ParseInt(s) ==
    LET t == TrimStart(s)
    IN  IF DigitsLen(t) = 0 THEN -1 ELSE ToNumber(SubSeq(t, 1, DigitsLen(t)))

----------------------------------------------------------------------------
(* DailyReportJob.readDueTodayData *)

NoDate == [found |-> FALSE, day |-> 0, month |-> 0]

\* /(\d{1,2})\/(\d{1,2})/ matches at position i with a first group of n digits
MatchesAt(s, i, n) ==
    /\ i + n + 1 <= Len(s)
    /\ \A k \in i..(i + n - 1) : IsDigit(s[k])
    /\ s[i + n] = "/"
    /\ IsDigit(s[i + n + 1])

\* dateStr.match(/(\d{1,2})\/(\d{1,2})/): the leftmost match, each group greedy
extractDatePart(dateStr) ==
    IF dateStr = <<>> \/ dateStr = <<"0">> \/ Trim(dateStr) = <<>> THEN NoDate
    ELSE LET at == {i \in 1..Len(dateStr) :
                       MatchesAt(dateStr, i, 2) \/ MatchesAt(dateStr, i, 1)}
         IN  IF at = {} THEN NoDate
             ELSE LET i == CHOOSE k \in at : \A j \in at : k <= j
                      n == IF MatchesAt(dateStr, i, 2) THEN 2 ELSE 1
                      m == IF i + n + 2 <= Len(dateStr) /\ IsDigit(dateStr[i + n + 2])
                           THEN 2 ELSE 1
                  IN  [found |-> TRUE,
                       day |-> ToNumber(SubSeq(dateStr, i, i + n - 1)),
                       month |-> ToNumber(SubSeq(dateStr, i + n + 1, i + n + m))]

isToday(dateStr, now) ==
    LET dateParts == extractDatePart(dateStr)
    IN  dateParts.found /\ dateParts.day = now.day /\ dateParts.month = now.month

isOverdue(dateStr, now) ==
    LET dateParts == extractDatePart(dateStr)
    IN  /\ dateParts.found
        /\ \/ dateParts.month < now.month
           \/ dateParts.month = now.month /\ dateParts.day < now.day

originalDueDate(row) ==
    IF Cell(row, ColReturn) # <<>> THEN Trim(row[ColReturn]) ELSE <<>>

rescheduledDueDate(row) ==
    IF Len(row) > 11 /\ row[ColNewReturn] # <<>> THEN Trim(row[ColNewReturn]) ELSE <<>>

\* the original date although a rescheduled date is there
effectiveDueDateOriginalFirst(row) ==
    IF originalDueDate(row) # <<>> THEN originalDueDate(row) ELSE rescheduledDueDate(row)

\* rescheduledDueDate || originalDueDate
effectiveDueDate(row) ==
    IF rescheduledDueDate(row) # <<>> THEN rescheduledDueDate(row) ELSE originalDueDate(row)

\* the status test compares with config.statusValues[3] ("Hoan thanh")
IsClosedWrongStatus(row) ==
    Len(row) > 5 /\ row[ColStatus] # <<>> /\ Trim(row[ColStatus]) = StatusValues[4]

\* row[5].trim() === "Dong don"
IsClosed(row) ==
    Len(row) > 5 /\ row[ColStatus] # <<>> /\ Trim(row[ColStatus]) = <<"Dong don">>

\* the array a data row is pushed to by rows.slice(1).forEach
DueClass(row, now) ==
    IF Len(row) < 3 \/ row[ColCode] = <<>> THEN "none"
    ELSE IF ~extractDatePart(effectiveDueDate(row)).found THEN "none"
    ELSE IF IsClosed(row) THEN "none"
    ELSE IF isToday(effectiveDueDate(row), now) THEN "dueToday"
    ELSE IF isOverdue(effectiveDueDate(row), now) THEN "overdue"
    ELSE "none"

\* the sheet row numbers of the rows pushed to dueTodayRows / overdueRows
RowsOfClass(values, now, class) ==
    Ascending({i \in 2..Len(values) : DueClass(values[i], now) = class})

\* uniqueCodesMap.has(code)
HasCode(map, code) == \E k \in 1..Len(map) : map[k].code = code

\* dueTodayRows.forEach: the first row of a code sets its entry
RECURSIVE SetDueToday(_, _, _)
SetDueToday(map, values, at) ==
    IF at = <<>> THEN map
    ELSE LET row == values[Head(at)]
         IN  SetDueToday(
                 IF HasCode(map, row[ColCode]) THEN map
                 ELSE Append(map, [type |-> "dueToday",
                                   code |-> row[ColCode],
                                   dueDate |-> effectiveDueDate(row),
                                   originalDueDate |-> originalDueDate(row),
                                   delayStatus |-> <<"undefined">>,
                                   isUsingRescheduledDate |-> rescheduledDueDate(row) # <<>>]),
                 values, Tail(at))

\* overdueRows.forEach over a map that lets an overdue row replace the entry
RECURSIVE SetOverdueOverriding(_, _, _)
SetOverdueOverriding(map, values, at) ==
    IF at = <<>> THEN map
    ELSE LET row == values[Head(at)]
             item == [type |-> "overdue",
                      code |-> row[ColCode],
                      dueDate |-> Cell(row, ColReturn),
                      originalDueDate |-> <<"undefined">>,
                      delayStatus |-> IF Len(row) > 10 /\ row[ColDelay] # <<>>
                                         /\ row[ColDelay] # DelayValues[1]
                                      THEN row[ColDelay] ELSE <<>>,
                      isUsingRescheduledDate |-> FALSE]
         IN  SetOverdueOverriding(
                 IF HasCode(map, row[ColCode])
                 THEN [k \in 1..Len(map) |->
                          IF map[k].code = row[ColCode] THEN item ELSE map[k]]
                 ELSE Append(map, item),
                 values, Tail(at))

\* overdueRows.forEach: a code that has an entry keeps it
RECURSIVE SetOverdue(_, _, _)
SetOverdue(map, values, at) ==
    IF at = <<>> THEN map
    ELSE LET row == values[Head(at)]
         IN  SetOverdue(
                 IF HasCode(map, row[ColCode]) THEN map
                 ELSE Append(map, [type |-> "overdue",
                                   code |-> row[ColCode],
                                   dueDate |-> Cell(row, ColReturn),
                                   originalDueDate |-> <<"undefined">>,
                                   delayStatus |-> IF Len(row) > 10 /\ row[ColDelay] # <<>>
                                                      /\ row[ColDelay] # DelayValues[1]
                                                   THEN row[ColDelay] ELSE <<>>,
                                   isUsingRescheduledDate |-> FALSE]),
                 values, Tail(at))

\* uniqueCodesMap after both loops, in insertion order
uniqueCodesMap(values, now) ==
    SetOverdue(SetDueToday(<<>>, values, RowsOfClass(values, now, "dueToday")),
               values, RowsOfClass(values, now, "overdue"))

\* readDueTodayData on the rows values.get A:L returned
readDueTodayData(values, now) ==
    IF Len(values) <= 1 THEN NoReported
    ELSE [NoReported EXCEPT
             !.dueTodayRows = RowsOfClass(values, now, "dueToday"),
             !.overdueRows = RowsOfClass(values, now, "overdue"),
             !.dueTodayItems = SelectSeq(uniqueCodesMap(values, now),
                                         LAMBDA e : e.type = "dueToday"),
             !.overdueItems = SelectSeq(uniqueCodesMap(values, now),
                                        LAMBDA e : e.type = "overdue")]

----------------------------------------------------------------------------
(* DailyReportJob.readSheetData *)

DaysIn(month) == IF month = 2 THEN 28 ELSE IF month \in {4, 6, 9, 11} THEN 30 ELSE 31

\* getYesterdayDate: setDate(getDate() - 1), in a year that is no leap year
getYesterdayDate(now) ==
    IF now.day > 1 THEN [now EXCEPT !.day = @ - 1]
    ELSE IF now.month > 1
         THEN [now EXCEPT !.month = @ - 1, !.day = DaysIn(now.month - 1)]
         ELSE [year |-> now.year - 1, month |-> 12, day |-> 31]

\* DailyReportJob.formatDate: MM/DD/YYYY
reportFormatDate(date) ==
    Pad2(date.month) \o <<"/">> \o Pad2(date.day) \o <<"/">> \o Year4(date.year)

\* the first two parts of every three-part text exchanged
formattedReceiveDateSwapAlways(cell) ==
    LET receiveDate == IF cell # <<>> THEN Split(cell, " ")[1] ELSE <<>>
        parts == Split(receiveDate, "/")
    IN  IF receiveDate # <<>> /\ Len(parts) = 3
        THEN parts[2] \o <<"/">> \o parts[1] \o <<"/">> \o parts[3]
        ELSE receiveDate

\* the date part of a receive date, a first part above 12 taken for the day
formattedReceiveDate(cell) ==
    LET receiveDate == IF cell # <<>> THEN Split(cell, " ")[1] ELSE <<>>
        parts == Split(receiveDate, "/")
    IN  IF receiveDate # <<>> /\ Len(parts) > 1 /\ Len(parts) = 3 /\ ParseInt(parts[1]) > 12
        THEN parts[2] \o <<"/">> \o parts[1] \o <<"/">> \o parts[3]
        ELSE receiveDate

\* the time test without the trim: a cell of white space counts as filled
hasEmptyTimeEstimateNoTrim(row) == Len(row) <= 6 \/ row[ColTime] = <<>>

hasEmptyTimeEstimate(row) ==
    Len(row) <= 6 \/ row[ColTime] = <<>> \/ Trim(row[ColTime]) = <<>>

\* the filter of incompleteRows
IsIncomplete(row, target) ==
    /\ ~(Len(row) < 2 \/ row[ColCode] = <<>>)
    /\ formattedReceiveDate(Cell(row, ColReceive)) = target
    /\ hasEmptyTimeEstimate(row)
    /\ ~(/\ Len(row) > 5 /\ row[ColStatus] # <<>>
         /\ Trim(row[ColStatus]) \in {<<"Phat sinh">>, <<"Huy don">>})

\* [...new Set(codes)]: the codes in order of first occurrence
RECURSIVE Unique(_)
Unique(codes) ==
    IF codes = <<>> THEN <<>>
    ELSE LET front == Unique(SubSeq(codes, 1, Len(codes) - 1))
             last == codes[Len(codes)]
         IN  IF \E k \in 1..Len(front) : front[k] = last THEN front
             ELSE Append(front, last)

\* readSheetData(useYesterday) on the rows values.get A:G returned
readSheetData(values, useYesterday, now) ==
    IF Len(values) <= 1 THEN NoReported
    ELSE LET target == reportFormatDate(IF useYesterday THEN getYesterdayDate(now) ELSE now)
             data == SubSeq(values, 2, Len(values))
             incompleteRows == SelectSeq(data, LAMBDA row : IsIncomplete(row, target))
         IN  [NoReported EXCEPT
                 !.invoiceCodes = Unique([k \in 1..Len(incompleteRows) |->
                                             incompleteRows[k][ColCode]]),
                 !.totalRows = Len(values) - 1,
                 !.todayRows = Len(SelectSeq(data, LAMBDA row :
                                   /\ ~(Len(row) < 2 \/ row[ColReceive] = <<>>)
                                   /\ formattedReceiveDate(row[ColReceive]) = target))]

----------------------------------------------------------------------------
(* DailyReportJob.readPhatSinhData *)

\* the filter of phatSinhRows
IsPhatSinh(row) ==
    /\ ~(Len(row) < 6 \/ row[ColCode] = <<>>)
    /\ Len(row) > 5 /\ row[ColStatus] # <<>>
    /\ Trim(row[ColStatus]) = <<"Phat sinh">>

\* the pair is added without the test for an item or a work
AddPhatSinhAll(grouped, row) ==
    IF \E k \in 1..Len(grouped) : grouped[k].code = row[ColCode]
    THEN [k \in 1..Len(grouped) |->
             IF grouped[k].code = row[ColCode]
             THEN [grouped[k] EXCEPT !.details =
                      Append(@, [item |-> Cell(row, ColItem), work |-> Cell(row, ColWork)])]
             ELSE grouped[k]]
    ELSE Append(grouped, [code |-> row[ColCode],
                          details |-> <<[item |-> Cell(row, ColItem),
                                         work |-> Cell(row, ColWork)]>>])

\* one iteration of phatSinhItems.forEach on groupedItems, a Map in insertion order
AddPhatSinh(grouped, row) ==
    LET item == [item |-> Cell(row, ColItem), work |-> Cell(row, ColWork)]
        keep == item.item # <<>> \/ item.work # <<>>
        had == \E k \in 1..Len(grouped) : grouped[k].code = row[ColCode]
        with == IF had THEN grouped
                ELSE Append(grouped, [code |-> row[ColCode], details |-> <<>>])
    IN  [k \in 1..Len(with) |->
            IF with[k].code = row[ColCode] /\ keep
            THEN [with[k] EXCEPT !.details = Append(@, item)]
            ELSE with[k]]

RECURSIVE GroupPhatSinh(_, _)
GroupPhatSinh(grouped, phatSinhRows) ==
    IF phatSinhRows = <<>> THEN grouped
    ELSE GroupPhatSinh(AddPhatSinh(grouped, Head(phatSinhRows)), Tail(phatSinhRows))

\* readPhatSinhData on the rows values.get A:F returned
readPhatSinhData(values) ==
    IF Len(values) <= 1 THEN NoReported
    ELSE [NoReported EXCEPT
             !.phatSinh = GroupPhatSinh(<<>>, SelectSeq(SubSeq(values, 2, Len(values)),
                                                        IsPhatSinh))]

----------------------------------------------------------------------------
(* The sheets the reports read *)

MaxRows == 2

\* data rows that differ in code, return date, status, delay and new return date
DueRowPool ==
    { <<<<"HD001">>, <<"0", "3", "/", "1", "0", "/", "2", "0", "2", "5", " ", "0", "9", ":", "0", "0">>, <<"1", "0", "/", "3">>, <<>>, <<>>, <<"Chua lam">>, <<>>, <<"Chon nguoi lam">>, <<>>, <<>>, <<"Chon">>, <<>>>>,
      <<<<"HD001">>, <<"0", "3", "/", "1", "0", "/", "2", "0", "2", "5", " ", "0", "9", ":", "0", "0">>, <<"q", "u", "a", " ", "7", "/", "3">>, <<>>, <<>>, <<"Chua lam">>, <<>>, <<"Chon nguoi lam">>, <<>>, <<>>, <<"Chon">>, <<>>>>,
      <<<<"HD002">>, <<"0", "3", "/", "1", "0", "/", "2", "0", "2", "5", " ", "0", "9", ":", "0", "0">>, <<"1", "5", "/", "3">>, <<>>, <<>>, <<"Chua lam">>, <<>>, <<"Chon nguoi lam">>, <<>>, <<>>, <<"Chon">>, <<>>>>,
      <<<<"HD002">>, <<"0", "3", "/", "1", "0", "/", "2", "0", "2", "5", " ", "0", "9", ":", "0", "0">>, <<"1", "0", "/", "3">>, <<>>, <<>>, <<"Dong don">>, <<>>, <<"Chon nguoi lam">>, <<>>, <<>>, <<"Chon">>, <<>>>>,
      <<<<"HD002">>, <<"0", "3", "/", "1", "0", "/", "2", "0", "2", "5", " ", "0", "9", ":", "0", "0">>, <<"q", "u", "a", " ", "7", "/", "3">>, <<>>, <<>>, <<"Chua lam">>, <<>>, <<"Chon nguoi lam">>, <<>>, <<>>, <<"Chon">>, <<"1", "0", "/", "3">>>>,
      <<<<"HD001">>, <<"0", "3", "/", "1", "0", "/", "2", "0", "2", "5", " ", "0", "9", ":", "0", "0">>, <<"1", "0", "/", "3">>, <<>>, <<>>, <<"Chua lam">>, <<>>, <<"Chon nguoi lam">>, <<>>, <<>>, <<"Chon">>, <<"s", "a", "u">>>>,
      <<<<"HD001">>, <<"0", "3", "/", "1", "0", "/", "2", "0", "2", "5", " ", "0", "9", ":", "0", "0">>, <<"7", "/", "3">>, <<>>, <<>>, <<"Chua lam">>, <<>>, <<"Chon nguoi lam">>, <<>>, <<>>, <<"Chon">>, <<" ">>>>,
      <<<<>>, <<"0", "3", "/", "1", "0", "/", "2", "0", "2", "5", " ", "0", "9", ":", "0", "0">>, <<"1", "0", "/", "3">>, <<>>, <<>>, <<"Chua lam">>, <<>>, <<"Chon nguoi lam">>, <<>>, <<>>, <<"Chon">>, <<>>>>,
      <<<<"HD002">>, <<"0", "3", "/", "1", "0", "/", "2", "0", "2", "5", " ", "0", "9", ":", "0", "0">>, <<"1", "0", "/", "2">>, <<>>, <<>>, <<"Chua lam">>, <<>>, <<"Chon nguoi lam">>, <<>>, <<>>, <<"Chon">>, <<>>>>,
      <<<<"HD001">>, <<"0", "3", "/", "1", "0", "/", "2", "0", "2", "5", " ", "0", "9", ":", "0", "0">>, <<"9", "/", "4">>, <<>>, <<>>, <<"Chua lam">>, <<>>, <<"Chon nguoi lam">>, <<>>, <<>>, <<"Chon">>, <<>>>>,
      <<<<"HD002">>, <<"0", "3", "/", "1", "0", "/", "2", "0", "2", "5", " ", "0", "9", ":", "0", "0">>, <<>>, <<>>, <<>>, <<>>, <<>>, <<>>, <<>>, <<>>, <<>>, <<>>>>,
      <<<<"HD001">>, <<"0", "3", "/", "1", "0", "/", "2", "0", "2", "5", " ", "0", "9", ":", "0", "0">>, <<"s", "a", "u">>, <<>>, <<>>, <<"Chua lam">>, <<>>, <<"Chon nguoi lam">>, <<>>, <<>>, <<"Delay lan 1">>, <<"7", "/", "3">>>>,
      <<<<"HD002">>, <<"0", "3", "/", "1", "0", "/", "2", "0", "2", "5", " ", "0", "9", ":", "0", "0">>, <<"0", "7", "/", "0", "3">>, <<>>, <<>>, <<"Chua lam">>, <<>>, <<"Chon nguoi lam">>, <<>>, <<>>, <<"Chon">>, <<>>>> }

\* data rows that differ in code, receive date, status and time
UnestimatedRowPool ==
    { <<<<"HD001">>, <<"0", "3", "/", "1", "0", "/", "2", "0", "2", "5", " ", "0", "9", ":", "0", "0">>, <<"1", "5", "/", "3">>, <<>>, <<>>, <<"Chua lam">>, <<>>, <<"Chon nguoi lam">>, <<>>, <<>>, <<"Chon">>, <<>>>>,
      <<<<"HD001">>, <<"0", "3", "/", "1", "0", "/", "2", "0", "2", "5", " ", "0", "9", ":", "0", "0">>, <<"1", "5", "/", "3">>, <<>>, <<>>, <<"Chua lam">>, <<"2", "h">>, <<"Chon nguoi lam">>, <<>>, <<>>, <<"Chon">>, <<>>>>,
      <<<<"HD002">>, <<"0", "3", "/", "1", "0", "/", "2", "0", "2", "5", " ", "0", "9", ":", "0", "5">>, <<"1", "5", "/", "3">>, <<>>, <<>>, <<"Chua lam">>, <<" ">>, <<"Chon nguoi lam">>, <<>>, <<>>, <<"Chon">>, <<>>>>,
      <<<<"HD002">>, <<"0", "3", "/", "0", "9", "/", "2", "0", "2", "5", " ", "1", "7", ":", "0", "0">>, <<"1", "5", "/", "3">>, <<>>, <<>>, <<"Chua lam">>, <<>>, <<"Chon nguoi lam">>, <<>>, <<>>, <<"Chon">>, <<>>>>,
      <<<<"HD001">>, <<"0", "3", "/", "1", "0", "/", "2", "0", "2", "5", " ", "0", "9", ":", "0", "0">>, <<"1", "5", "/", "3">>, <<>>, <<>>, <<"Phat sinh">>, <<>>, <<"Chon nguoi lam">>, <<>>, <<>>, <<"Chon">>, <<>>>>,
      <<<<"HD002">>, <<"0", "3", "/", "1", "0", "/", "2", "0", "2", "5", " ", "0", "9", ":", "0", "0">>, <<"1", "5", "/", "3">>, <<>>, <<>>, <<"Huy don">>, <<>>, <<"Chon nguoi lam">>, <<>>, <<>>, <<"Chon">>, <<>>>>,
      <<<<>>, <<"0", "3", "/", "1", "0", "/", "2", "0", "2", "5", " ", "0", "9", ":", "0", "0">>, <<"1", "5", "/", "3">>, <<>>, <<>>, <<"Chua lam">>, <<>>, <<"Chon nguoi lam">>, <<>>, <<>>, <<"Chon">>, <<>>>>,
      <<<<"HD002">>, <<"1", "5", "/", "0", "3", "/", "2", "0", "2", "5", " ", "0", "9", ":", "0", "0">>, <<"2", "0", "/", "3">>, <<>>, <<>>, <<"Chua lam">>, <<>>, <<"Chon nguoi lam">>, <<>>, <<>>, <<"Chon">>, <<>>>>,
      <<<<"HD001">>, <<"1", "0", "/", "0", "3", "/", "2", "0", "2", "5", " ", "0", "9", ":", "0", "0">>, <<"1", "5", "/", "3">>, <<>>, <<>>, <<"Chua lam">>, <<>>, <<"Chon nguoi lam">>, <<>>, <<>>, <<"Chon">>, <<>>>>,
      <<<<"HD001">>, <<>>, <<"1", "5", "/", "3">>, <<>>, <<>>, <<"Chua lam">>, <<>>, <<"Chon nguoi lam">>, <<>>, <<>>, <<"Chon">>, <<>>>>,
      <<<<"HD002">>, <<"0", "2", "/", "2", "8", "/", "2", "0", "2", "5", " ", "1", "0", ":", "0", "0">>, <<"1", "5", "/", "3">>, <<>>, <<>>, <<"Chua lam">>, <<>>, <<"Chon nguoi lam">>, <<>>, <<>>, <<"Chon">>, <<>>>> }

\* data rows that differ in code, item, work and status
PhatSinhRowPool ==
    { <<<<"HD001">>, <<"0", "3", "/", "1", "0", "/", "2", "0", "2", "5", " ", "0", "9", ":", "0", "0">>, <<"1", "5", "/", "3">>, <<"A">>, <<"u">>, <<"Phat sinh">>, <<>>, <<"Chon nguoi lam">>, <<>>, <<>>, <<"Chon">>, <<>>>>,
      <<<<"HD001">>, <<"0", "3", "/", "1", "0", "/", "2", "0", "2", "5", " ", "0", "9", ":", "0", "0">>, <<"1", "5", "/", "3">>, <<"B">>, <<>>, <<"Phat sinh">>, <<>>, <<"Chon nguoi lam">>, <<>>, <<>>, <<"Chon">>, <<>>>>,
      <<<<"HD001">>, <<"0", "3", "/", "1", "0", "/", "2", "0", "2", "5", " ", "0", "9", ":", "0", "0">>, <<"1", "5", "/", "3">>, <<>>, <<>>, <<"Phat sinh">>, <<>>, <<"Chon nguoi lam">>, <<>>, <<>>, <<"Chon">>, <<>>>>,
      <<<<"HD002">>, <<"0", "3", "/", "1", "0", "/", "2", "0", "2", "5", " ", "0", "9", ":", "0", "0">>, <<"1", "5", "/", "3">>, <<"C">>, <<"v">>, <<"Chua lam">>, <<>>, <<"Chon nguoi lam">>, <<>>, <<>>, <<"Chon">>, <<>>>>,
      <<<<"HD002">>, <<"0", "3", "/", "1", "0", "/", "2", "0", "2", "5", " ", "0", "9", ":", "0", "0">>, <<"1", "5", "/", "3">>, <<>>, <<"w">>, <<"Phat sinh">>, <<>>, <<"Chon nguoi lam">>, <<>>, <<>>, <<"Chon">>, <<>>>>,
      <<<<>>, <<"0", "3", "/", "1", "0", "/", "2", "0", "2", "5", " ", "0", "9", ":", "0", "0">>, <<"1", "5", "/", "3">>, <<"D">>, <<"x">>, <<"Phat sinh">>, <<>>, <<"Chon nguoi lam">>, <<>>, <<>>, <<"Chon">>, <<>>>>,
      <<<<"HD002">>, <<"0", "3", "/", "1", "0", "/", "2", "0", "2", "5", " ", "0", "9", ":", "0", "0">>, <<"1", "5", "/", "3">>, <<" ">>, <<>>, <<"Phat sinh">>, <<>>, <<"Chon nguoi lam">>, <<>>, <<>>, <<"Chon">>, <<>>>> }

\* the sheets of a header and up to MaxRows rows of one pool
SheetsOf(rowPool) ==
    {<<Headers>> \o body : body \in UNION {[1..n -> rowPool] : n \in 0..MaxRows}}

ReportSheets ==
    SheetsOf(DueRowPool) \cup SheetsOf(UnestimatedRowPool) \cup SheetsOf(PhatSinhRowPool)

\* the days on which a report reads the sheet
ReportDays ==
    { [year |-> 2025, month |-> 3, day |-> 10],
      [year |-> 2025, month |-> 3, day |-> 15],
      [year |-> 2025, month |-> 3, day |-> 1] }

\* runUnestimatedReport / main: readSheetData(useYesterday)
ReadSheetData ==
    /\ report = "none"
    /\ \E useYesterday \in BOOLEAN :
          /\ reported' = readSheetData(ValuesRange(sheet, ColTime), useYesterday, reportDay)
          /\ report' = IF useYesterday THEN "unestimatedYesterday" ELSE "unestimatedToday"
    /\ UNCHANGED <<syncVars, parseVars, further, reportDay>>

\* runDueAndOverdueReport: readDueTodayData()
ReadDueTodayData ==
    /\ report = "none"
    /\ reported' = readDueTodayData(ValuesRange(sheet, ColNewReturn), reportDay)
    /\ report' = "due"
    /\ UNCHANGED <<syncVars, parseVars, further, reportDay>>

\* runPhatSinhReport: readPhatSinhData()
ReadPhatSinhData ==
    /\ report = "none"
    /\ reported' = readPhatSinhData(ValuesRange(sheet, ColStatus))
    /\ report' = "phatSinh"
    /\ UNCHANGED <<syncVars, parseVars, further, reportDay>>

\* no sync run is at work; the sheet holds a header and some data rows
InitReport ==
    /\ today = 1
    /\ upstream = <<>>
    /\ sheetExists = TRUE
    /\ sheet \in ReportSheets
    /\ pc = [r \in RunIds |-> "idle"]
    /\ invoices = [r \in RunIds |-> <<>>]
    /\ existingCodes = [r \in RunIds |-> {}]
    /\ rows = [r \in RunIds |-> <<>>]
    /\ scan = [r \in RunIds |-> NoScan]
    /\ result = [r \in RunIds |-> "none"]
    /\ fault = [r \in RunIds |-> "none"]
    /\ owed = 0
    /\ cycles = MaxCycles
    /\ edits = MaxEdits
    /\ NoParse
    /\ NoRun
    /\ NoSetup
    /\ NoDateCheck
    /\ NoSeed
    /\ reportDay \in ReportDays
    /\ report = "none"
    /\ reported = NoReported

NextReport == ReadSheetData \/ ReadDueTodayData \/ ReadPhatSinhData

SpecReport == InitReport /\ [][NextReport]_vars

----------------------------------------------------------------------------
(* Vocabulary of the report properties: the sheet read without the reports *)

DigitSet == {"0", "1", "2", "3", "4", "5", "6", "7", "8", "9"}

\* text t has one or two digits, a slash and one or two digits from place i on,
\* a digits before the slash and b after it
PairAt(t, i, a, b) ==
    /\ i >= 1 /\ i + a + b <= Len(t)
    /\ \A k \in i..(i + a - 1) : t[k] \in DigitSet
    /\ t[i + a] = "/"
    /\ \A k \in (i + a + 1)..(i + a + b) : t[k] \in DigitSet

HasPair(t) == \E i \in 1..Len(t), a \in 1..2, b \in 1..2 : PairAt(t, i, a, b)

\* the first day/month pair of the text, each number as long as it can be
PairOf(t) ==
    LET i == CHOOSE k \in 1..Len(t) :
                 /\ \E a \in 1..2, b \in 1..2 : PairAt(t, k, a, b)
                 /\ \A j \in 1..(k - 1) : ~\E a \in 1..2, b \in 1..2 : PairAt(t, j, a, b)
        a == IF \E b \in 1..2 : PairAt(t, i, 2, b) THEN 2 ELSE 1
        b == IF PairAt(t, i, a, 2) THEN 2 ELSE 1
    IN  [day |-> ToNumber(SubSeq(t, i, i + a - 1)),
         month |-> ToNumber(SubSeq(t, i + a + 1, i + a + b))]

\* the class of a due-date text on the day now
ClassOfText(t, now) ==
    IF ~HasPair(t) THEN "none"
    ELSE IF PairOf(t).day = now.day /\ PairOf(t).month = now.month THEN "dueToday"
    ELSE IF \/ PairOf(t).month < now.month
            \/ PairOf(t).month = now.month /\ PairOf(t).day < now.day THEN "overdue"
    ELSE "none"

\* the due-date text of a sheet row: the new return date unless that cell is
\* blank, then the return date
EffectiveText(row) ==
    IF Stripped(row[ColNewReturn]) # <<>> THEN row[ColNewReturn] ELSE row[ColReturn]

\* the elements of a sequence
Range(seq) == {seq[k] : k \in 1..Len(seq)}

(* C16: in the due/overdue read, a row with a code, a day/month pair in its
   effective due date and a status other than "Dong don" is DueToday iff the
   pair is today's day and month, Overdue iff the pair is earlier in month then
   day order, and else in neither list; a row with status "Dong don", without
   a pair or without a code is in neither list. *)
C16_DueClassification ==
    report = "due" =>
        \A i \in 2..Len(sheet) :
            LET row == sheet[i]
                class == IF row[ColCode] = <<>> \/ row[ColStatus] = <<"Dong don">>
                         THEN "none"
                         ELSE ClassOfText(EffectiveText(row), reportDay)
            IN  /\ i \in Range(reported.dueTodayRows) <=> class = "dueToday"
                /\ i \in Range(reported.overdueRows) <=> class = "overdue"

\* on 10/3, the row due "10/3" is DueToday and the row due "qua 7/3" Overdue
C16_Witness ==
    /\ report = "due"
    /\ reportDay = [year |-> 2025, month |-> 3, day |-> 10]
    /\ Len(sheet) = 3
    /\ sheet[2][ColReturn] = <<"1", "0", "/", "3">> /\ sheet[2][ColNewReturn] = <<>>
    /\ sheet[3][ColReturn] = <<"q", "u", "a", " ", "7", "/", "3">>
    /\ sheet[3][ColNewReturn] = <<>>
    /\ reported.dueTodayRows = <<2>>
    /\ reported.overdueRows = <<3>>

\* on 10/3, a row due "15/3" and a row due "10/3" with status "Dong don" are in
\* neither list
C16_WitnessIgnored ==
    /\ report = "due"
    /\ reportDay = [year |-> 2025, month |-> 3, day |-> 10]
    /\ Len(sheet) = 3
    /\ sheet[2][ColReturn] = <<"1", "5", "/", "3">>
    /\ sheet[3][ColReturn] = <<"1", "0", "/", "3">>
    /\ sheet[3][ColStatus] = <<"Dong don">>
    /\ reported.dueTodayRows = <<>>
    /\ reported.overdueRows = <<>>

\* the lists a row with a code and an open status is in follow this text
FollowsText(i, t) ==
    /\ i \in Range(reported.dueTodayRows) <=> ClassOfText(t, reportDay) = "dueToday"
    /\ i \in Range(reported.overdueRows) <=> ClassOfText(t, reportDay) = "overdue"

(* C17 as stated: a row is classified by its new return date (column L) whenever
   that cell is not empty, and by its return date (column C) only when the
   cell is empty; when the new return date is not empty and has no day/month
   pair the row is skipped. *)
C17_RescheduledFirst ==
    report = "due" =>
        \A i \in 2..Len(sheet) :
            sheet[i][ColCode] # <<>> /\ sheet[i][ColStatus] # <<"Dong don">> =>
                FollowsText(i, IF sheet[i][ColNewReturn] # <<>>
                               THEN sheet[i][ColNewReturn]
                               ELSE sheet[i][ColReturn])

(* C17 amended: a row is classified by its new return date whenever that cell
   holds more than white space, and by its return date when the cell is empty
   or holds white space only; when the new return date holds text without a
   day/month pair the row is skipped whatever its return date. *)
C17_RescheduledUnlessBlank ==
    report = "due" =>
        \A i \in 2..Len(sheet) :
            sheet[i][ColCode] # <<>> /\ sheet[i][ColStatus] # <<"Dong don">> =>
                /\ Stripped(sheet[i][ColNewReturn]) # <<>> =>
                      FollowsText(i, sheet[i][ColNewReturn])
                /\ Stripped(sheet[i][ColNewReturn]) = <<>> =>
                      FollowsText(i, sheet[i][ColReturn])

\* on 10/3, the row due "qua 7/3" and rescheduled to "10/3" is DueToday, and the
\* row due "10/3" whose new return date is "sau" is in neither list
C17_Witness ==
    /\ report = "due"
    /\ reportDay = [year |-> 2025, month |-> 3, day |-> 10]
    /\ Len(sheet) = 3
    /\ sheet[2][ColReturn] = <<"q", "u", "a", " ", "7", "/", "3">>
    /\ sheet[2][ColNewReturn] = <<"1", "0", "/", "3">>
    /\ sheet[3][ColReturn] = <<"1", "0", "/", "3">>
    /\ sheet[3][ColNewReturn] = <<"s", "a", "u">>
    /\ reported.dueTodayRows = <<2>>
    /\ reported.overdueRows = <<>>

\* the class of sheet row i, read from the sheet alone
ClassOfRow(i) ==
    IF sheet[i][ColCode] = <<>> \/ sheet[i][ColStatus] = <<"Dong don">> THEN "none"
    ELSE ClassOfText(EffectiveText(sheet[i]), reportDay)

\* the codes of a list of report items
CodesOf(items) == {items[k].code : k \in 1..Len(items)}

\* no two items of the list have the same code
DistinctCodes(items) ==
    \A j, k \in 1..Len(items) : items[j].code = items[k].code => j = k

(* C18: in the due/overdue read, each invoice code is at most once in
   dueTodayItems and at most once in overdueItems and never in both, and a
   code with at least one DueToday row is in dueTodayItems and not in
   overdueItems, also when another of its rows is Overdue and comes earlier
   in the sheet. *)
C18_DueDedup ==
    report = "due" =>
        /\ DistinctCodes(reported.dueTodayItems)
        /\ DistinctCodes(reported.overdueItems)
        /\ CodesOf(reported.dueTodayItems) \cap CodesOf(reported.overdueItems) = {}
        /\ \A i \in 2..Len(sheet) :
              ClassOfRow(i) = "dueToday" =>
                  /\ sheet[i][ColCode] \in CodesOf(reported.dueTodayItems)
                  /\ sheet[i][ColCode] \notin CodesOf(reported.overdueItems)

\* on 10/3, HD001 has a row due "qua 7/3" and below it a row due "10/3": it is
\* reported once, under DueToday
C18_Witness ==
    /\ report = "due"
    /\ reportDay = [year |-> 2025, month |-> 3, day |-> 10]
    /\ Len(sheet) = 3
    /\ sheet[2][ColCode] = <<"HD001">> /\ sheet[3][ColCode] = <<"HD001">>
    /\ ClassOfRow(2) = "overdue" /\ ClassOfRow(3) = "dueToday"
    /\ reported.overdueRows = <<2>> /\ reported.dueTodayRows = <<3>>
    /\ Len(reported.dueTodayItems) = 1
    /\ reported.dueTodayItems[1].code = <<"HD001">>
    /\ reported.overdueItems = <<>>

\* on 10/3, two Overdue rows of HD002 give one Overdue item
C18_WitnessOverdueOnce ==
    /\ report = "due"
    /\ reportDay = [year |-> 2025, month |-> 3, day |-> 10]
    /\ Len(sheet) = 3
    /\ sheet[2][ColCode] = <<"HD002">> /\ sheet[3][ColCode] = <<"HD002">>
    /\ reported.overdueRows = <<2, 3>>
    /\ Len(reported.overdueItems) = 1
    /\ reported.dueTodayItems = <<>>

\* s is one or more digits
IsNumeral(s) == s # <<>> /\ \A k \in 1..Len(s) : s[k] \in DigitSet

NoDay == [year |-> 0, month |-> 0, day |-> 0]

\* the day a receive date names: the text before the first space, as
\* month/day/year unless the first number is above 12, then as day/month/year
ReceiveDay(cell) ==
    LET p == Pieces(Pieces(cell, " ")[1], "/")
    IN  IF Len(p) = 3 /\ \A k \in 1..3 : IsNumeral(p[k])
        THEN IF ToNumber(p[1]) > 12
             THEN [year |-> ToNumber(p[3]), month |-> ToNumber(p[2]), day |-> ToNumber(p[1])]
             ELSE [year |-> ToNumber(p[3]), month |-> ToNumber(p[1]), day |-> ToNumber(p[2])]
        ELSE NoDay

\* the days of the months of a year that is no leap year
CalendarDays == <<31, 28, 31, 30, 31, 30, 31, 31, 30, 31, 30, 31>>

RECURSIVE DaysBefore(_)
DaysBefore(month) ==
    IF month <= 1 THEN 0 ELSE CalendarDays[month - 1] + DaysBefore(month - 1)

DayOfYear(d) == DaysBefore(d.month) + d.day

\* the calendar day before d, d not the first of January
DayBefore(d) ==
    CHOOSE e \in [year : {d.year}, month : 1..12, day : 1..31] :
        e.day <= CalendarDays[e.month] /\ DayOfYear(e) + 1 = DayOfYear(d)

\* the day the unestimated read looks for
TargetDay ==
    IF report = "unestimatedYesterday" THEN DayBefore(reportDay) ELSE reportDay

\* sheet row i has a code, the target receive day and a status that does not
\* exclude it
ReceivedOnTarget(i) ==
    /\ sheet[i][ColCode] # <<>>
    /\ ReceiveDay(sheet[i][ColReceive]) = TargetDay
    /\ sheet[i][ColStatus] \notin {<<"Phat sinh">>, <<"Huy don">>}

\* no code is listed twice
ListedOnce(codes) == \A j, k \in 1..Len(codes) : codes[j] = codes[k] => j = k

(* C19 as stated: the unestimated read reports exactly the distinct codes of
   the rows with a code, a receive date on the target day, an empty time cell
   and a status that is neither "Phat sinh" nor "Huy don", each code once. *)
C19_UnestimatedEmptyTime ==
    report \in {"unestimatedToday", "unestimatedYesterday"} =>
        /\ Range(reported.invoiceCodes) =
               {sheet[i][ColCode] : i \in {k \in 2..Len(sheet) :
                    ReceivedOnTarget(k) /\ sheet[k][ColTime] = <<>>}}
        /\ ListedOnce(reported.invoiceCodes)

(* C19 amended: the unestimated read reports exactly the distinct codes of the
   rows with a code, a receive date on the target day, a time cell that is
   empty or holds white space only, and a status that is neither "Phat sinh"
   nor "Huy don", each code once. *)
C19_UnestimatedBlankTime ==
    report \in {"unestimatedToday", "unestimatedYesterday"} =>
        /\ Range(reported.invoiceCodes) =
               {sheet[i][ColCode] : i \in {k \in 2..Len(sheet) :
                    ReceivedOnTarget(k) /\ Stripped(sheet[k][ColTime]) = <<>>}}
        /\ ListedOnce(reported.invoiceCodes)

\* on 10/3, two rows of HD001 received on 03/10/2025 without a time: the read
\* for today reports HD001 once
C19_Witness ==
    /\ report = "unestimatedToday"
    /\ reportDay = [year |-> 2025, month |-> 3, day |-> 10]
    /\ Len(sheet) = 3
    /\ \A i \in 2..3 : /\ sheet[i][ColCode] = <<"HD001">>
                       /\ ReceivedOnTarget(i) /\ sheet[i][ColTime] = <<>>
    /\ reported.invoiceCodes = <<<<"HD001">>>>

\* on 1/3, the read for yesterday reports the row received on 02/28/2025
C19_WitnessYesterday ==
    /\ report = "unestimatedYesterday"
    /\ reportDay = [year |-> 2025, month |-> 3, day |-> 1]
    /\ Len(sheet) = 2
    /\ ReceivedOnTarget(2)
    /\ reported.invoiceCodes = <<<<"HD002">>>>

\* on 15/3, the read for today reports the row received on "15/03/2025"
C19_WitnessDayFirst ==
    /\ report = "unestimatedToday"
    /\ reportDay = [year |-> 2025, month |-> 3, day |-> 15]
    /\ Len(sheet) = 2
    /\ Len(sheet[2][ColReceive]) >= 5
    /\ SubSeq(sheet[2][ColReceive], 1, 5) = <<"1", "5", "/", "0", "3">>
    /\ reported.invoiceCodes = <<<<"HD002">>>>

\* on 10/3, the row whose time cell is one space is reported
C19_BlankTimeReported ==
    /\ report = "unestimatedToday"
    /\ reportDay = [year |-> 2025, month |-> 3, day |-> 10]
    /\ Len(sheet) = 2
    /\ sheet[2][ColTime] = <<" ">>
    /\ reported.invoiceCodes = <<<<"HD002">>>>

\* the sheet rows with a code and the status "Phat sinh"
FlaggedRows == {i \in 2..Len(sheet) :
                   sheet[i][ColCode] # <<>> /\ sheet[i][ColStatus] = <<"Phat sinh">>}

\* the (item, work) pairs of the flagged rows of a code, in sheet order,
\* without the pairs whose item and work are both empty
PairsOfCode(code) ==
    LET at == Ascending({i \in FlaggedRows :
                            /\ sheet[i][ColCode] = code
                            /\ ~(sheet[i][ColItem] = <<>> /\ sheet[i][ColWork] = <<>>)})
    IN  [k \in 1..Len(at) |-> [item |-> sheet[at[k]][ColItem],
                               work |-> sheet[at[k]][ColWork]]]

(* C20: the flagged read has exactly one entry per distinct code that has a row
   with status "Phat sinh"; the details of the entry are the (item, work) pairs
   of those rows in sheet order, without the pairs whose item and work are both
   empty; rows with another status contribute nothing. *)
C20_PhatSinhGroups ==
    report = "phatSinh" =>
        /\ CodesOf(reported.phatSinh) = {sheet[i][ColCode] : i \in FlaggedRows}
        /\ DistinctCodes(reported.phatSinh)
        /\ \A k \in 1..Len(reported.phatSinh) :
              reported.phatSinh[k].details = PairsOfCode(reported.phatSinh[k].code)

\* HD001 flagged twice, with the pair (A, u) and with an empty pair: one entry
\* with the one pair
C20_Witness ==
    /\ report = "phatSinh"
    /\ Len(sheet) = 3
    /\ FlaggedRows = {2, 3}
    /\ sheet[2][ColCode] = <<"HD001">> /\ sheet[3][ColCode] = <<"HD001">>
    /\ sheet[2][ColItem] = <<"A">> /\ sheet[2][ColWork] = <<"u">>
    /\ sheet[3][ColItem] = <<>> /\ sheet[3][ColWork] = <<>>
    /\ reported.phatSinh =
           <<[code |-> <<"HD001">>, details |-> <<[item |-> <<"A">>, work |-> <<"u">>]>>]>>

\* HD002 with a row of status "Chua lam" and a flagged row: the entry has the
\* pair of the flagged row only
C20_WitnessOtherStatus ==
    /\ report = "phatSinh"
    /\ Len(sheet) = 3
    /\ FlaggedRows = {3}
    /\ sheet[2][ColCode] = <<"HD002">> /\ sheet[2][ColStatus] = <<"Chua lam">>
    /\ sheet[3][ColCode] = <<"HD002">>
    /\ reported.phatSinh =
           <<[code |-> <<"HD002">>, details |-> <<[item |-> <<>>, work |-> <<"w">>]>>]>>

\* two flagged rows of HD001 with the pairs (B, ) and (A, u): the details keep
\* the sheet order
C20_WitnessOrder ==
    /\ report = "phatSinh"
    /\ Len(sheet) = 3
    /\ FlaggedRows = {2, 3}
    /\ sheet[2][ColItem] = <<"B">> /\ sheet[3][ColItem] = <<"A">>
    /\ Len(reported.phatSinh) = 1
    /\ reported.phatSinh[1].details =
           <<[item |-> <<"B">>, work |-> <<>>], [item |-> <<"A">>, work |-> <<"u">>]>>

----------------------------------------------------------------------------
(* DailyReportJob.runUnestimatedReport, runDueAndOverdueReport,
   runPhatSinhReport and main, with the notifier of the Telegram service *)

Procedures == <<"unestimated", "dueAndOverdue", "phatSinh">>

\* a send that is made whatever the list holds
ShouldSendAlways(items) == TRUE

\* if (items.length > 0)
ShouldSend(items) == Len(items) > 0

\* await this.telegramBot.sendToDailyReportTopic(message): the call is
\* recorded; sendMessageToTopic rethrows what axios.post threw
SendCall(category, delivered) == [category |-> category, delivered |-> delivered]

\* main goes on only after a procedure that returned true
AfterProcedureAbort(procedure, ok) ==
    IF runEntry # "main" \/ ~ok THEN "done"
    ELSE IF procedure = "unestimated" THEN "dueAndOverdue"
    ELSE IF procedure = "dueAndOverdue" THEN "phatSinh"
    ELSE "mainEnd"

\* where the run goes after a procedure returned: main awaits the three one
\* after the other and does not read what they return
AfterProcedure(procedure, ok) ==
    IF runEntry # "main" THEN "done"
    ELSE IF procedure = "unestimated" THEN "dueAndOverdue"
    ELSE IF procedure = "dueAndOverdue" THEN "phatSinh"
    ELSE "mainEnd"

\* the end of a procedure: its calls of the notifier and whether its try
\* block ran to the end
Returns(procedure, sent, ok) ==
    /\ started' = Append(started, procedure)
    /\ calls' = calls \o sent
    /\ failed' = IF ok THEN failed ELSE failed \cup {procedure}
    /\ runPc' = AfterProcedure(procedure, ok)

\* scheduler.js: one of the three cron tasks, or DailyReportJob.run: main()
StartRun ==
    /\ runEntry = "none"
    /\ \E e \in {"main", "unestimated", "dueAndOverdue", "phatSinh"} :
          /\ runEntry' = e
          /\ runPc' = IF e = "main" THEN "unestimated" ELSE e
    /\ UNCHANGED <<syncVars, parseVars, reportVars, besideRun, started, calls, failed>>

\* runUnestimatedReport: readSheetData(true), then one send if there are codes
RunUnestimatedReport ==
    /\ runPc = "unestimated"
    /\ \E readOk, sendOk \in BOOLEAN :
          LET read == readSheetData(ValuesRange(sheet, ColTime), TRUE, reportDay)
              sends == readOk /\ ShouldSend(read.invoiceCodes)
          IN  /\ reported' = IF readOk
                             THEN [reported EXCEPT !.invoiceCodes = read.invoiceCodes,
                                                   !.totalRows = read.totalRows,
                                                   !.todayRows = read.todayRows]
                             ELSE reported
              /\ Returns("unestimated",
                         IF sends THEN <<SendCall("unestimated", sendOk)>> ELSE <<>>,
                         readOk /\ (sends => sendOk))
    /\ UNCHANGED <<syncVars, parseVars, besideRun, reportDay, report, runEntry>>

\* runDueAndOverdueReport: readDueTodayData(), then a send for the items due
\* today and a send for the overdue items; a send that throws ends the try block
RunDueAndOverdueReport ==
    /\ runPc = "dueAndOverdue"
    /\ \E readOk, sendDueOk, sendOverdueOk \in BOOLEAN :
          LET read == readDueTodayData(ValuesRange(sheet, ColNewReturn), reportDay)
              sendsDue == readOk /\ ShouldSend(read.dueTodayItems)
              reaches == readOk /\ (sendsDue => sendDueOk)
              sendsOverdue == reaches /\ ShouldSend(read.overdueItems)
          IN  /\ reported' = IF readOk
                             THEN [reported EXCEPT !.dueTodayRows = read.dueTodayRows,
                                                   !.overdueRows = read.overdueRows,
                                                   !.dueTodayItems = read.dueTodayItems,
                                                   !.overdueItems = read.overdueItems]
                             ELSE reported
              /\ Returns("dueAndOverdue",
                         (IF sendsDue THEN <<SendCall("dueToday", sendDueOk)>> ELSE <<>>)
                           \o (IF sendsOverdue THEN <<SendCall("overdue", sendOverdueOk)>>
                               ELSE <<>>),
                         reaches /\ (sendsOverdue => sendOverdueOk))
    /\ UNCHANGED <<syncVars, parseVars, besideRun, reportDay, report, runEntry>>

\* runPhatSinhReport: readPhatSinhData(), then one send if there are items
RunPhatSinhReport ==
    /\ runPc = "phatSinh"
    /\ \E readOk, sendOk \in BOOLEAN :
          LET read == readPhatSinhData(ValuesRange(sheet, ColStatus))
              sends == readOk /\ ShouldSend(read.phatSinh)
          IN  /\ reported' = IF readOk THEN [reported EXCEPT !.phatSinh = read.phatSinh]
                             ELSE reported
              /\ Returns("phatSinh",
                         IF sends THEN <<SendCall("phatSinh", sendOk)>> ELSE <<>>,
                         readOk /\ (sends => sendOk))
    /\ UNCHANGED <<syncVars, parseVars, besideRun, reportDay, report, runEntry>>

\* main: 'Complete daily report job completed successfully', return true
MainEnd ==
    /\ runPc = "mainEnd"
    /\ runPc' = "done"
    /\ UNCHANGED <<syncVars, parseVars, reportVars, besideRun, runEntry, started, calls, failed>>

\* rows for the four categories: received on 03/09/2025 without a time, due
\* today, overdue, flagged, closed
RunRowPool ==
    { <<<<"HD001">>, <<"0", "3", "/", "0", "9", "/", "2", "0", "2", "5", " ", "1", "7", ":", "0", "0">>, <<"1", "5", "/", "3">>, <<"A">>, <<"u">>, <<"Chua lam">>, <<>>, <<"Chon nguoi lam">>, <<>>, <<>>, <<"Chon">>, <<>>>>,
      <<<<"HD001">>, <<"0", "3", "/", "0", "1", "/", "2", "0", "2", "5", " ", "0", "9", ":", "0", "0">>, <<"1", "0", "/", "3">>, <<"A">>, <<"u">>, <<"Chua lam">>, <<"2", "h">>, <<"Chon nguoi lam">>, <<>>, <<>>, <<"Chon">>, <<>>>>,
      <<<<"HD002">>, <<"0", "3", "/", "0", "1", "/", "2", "0", "2", "5", " ", "0", "9", ":", "0", "0">>, <<"7", "/", "3">>, <<"B">>, <<"v">>, <<"Chua lam">>, <<"2", "h">>, <<"Chon nguoi lam">>, <<>>, <<>>, <<"Delay lan 1">>, <<>>>>,
      <<<<"HD002">>, <<"0", "3", "/", "0", "1", "/", "2", "0", "2", "5", " ", "0", "9", ":", "0", "0">>, <<"2", "0", "/", "3">>, <<"C">>, <<"w">>, <<"Phat sinh">>, <<"2", "h">>, <<"Chon nguoi lam">>, <<>>, <<>>, <<"Chon">>, <<>>>>,
      <<<<"HD001">>, <<"0", "3", "/", "0", "1", "/", "2", "0", "2", "5", " ", "0", "9", ":", "0", "0">>, <<"1", "0", "/", "3">>, <<"A">>, <<"u">>, <<"Dong don">>, <<"2", "h">>, <<"Chon nguoi lam">>, <<>>, <<>>, <<"Chon">>, <<>>>> }

\* a report run on a sheet that no sync run is writing
InitRun ==
    /\ today = 1
    /\ upstream = <<>>
    /\ sheetExists = TRUE
    /\ sheet \in SheetsOf(RunRowPool)
    /\ pc = [r \in RunIds |-> "idle"]
    /\ invoices = [r \in RunIds |-> <<>>]
    /\ existingCodes = [r \in RunIds |-> {}]
    /\ rows = [r \in RunIds |-> <<>>]
    /\ scan = [r \in RunIds |-> NoScan]
    /\ result = [r \in RunIds |-> "none"]
    /\ fault = [r \in RunIds |-> "none"]
    /\ owed = 0
    /\ cycles = MaxCycles
    /\ edits = MaxEdits
    /\ NoParse
    /\ reportDay = [year |-> 2025, month |-> 3, day |-> 10]
    /\ report = "none"
    /\ reported = NoReported
    /\ NoRun
    /\ NoSetup
    /\ NoDateCheck
    /\ NoSeed

NextRun ==
    StartRun \/ RunUnestimatedReport \/ RunDueAndOverdueReport \/ RunPhatSinhReport
        \/ MainEnd

SpecRun == InitRun /\ [][NextRun]_vars

----------------------------------------------------------------------------
(* Vocabulary of the report-run properties *)

Categories == {"unestimated", "dueToday", "overdue", "phatSinh"}

\* the procedure that classifies and reports a category
ProcedureOf(category) ==
    IF category \in {"dueToday", "overdue"} THEN "dueAndOverdue" ELSE category

\* the classification result of a category, empty as long as no read gave one
ResultOf(category) ==
    IF category = "unestimated" THEN reported.invoiceCodes
    ELSE IF category = "dueToday" THEN reported.dueTodayItems
    ELSE IF category = "overdue" THEN reported.overdueItems
    ELSE reported.phatSinh

\* how often the notifier was called for the category
CallsFor(category) == Cardinality({k \in 1..Len(calls) : calls[k].category = category})

\* the procedure has run to its return
Finished(procedure) == \E k \in 1..Len(started) : started[k] = procedure

\* the notifier was called for the category and threw
SendFailed(category) ==
    \E k \in 1..Len(calls) : calls[k].category = category /\ ~calls[k].delivered

(* C21 as stated: in each report run the notifier is called for a category iff
   the classification result of the category is not empty, and at most once;
   an empty result leads to no call. *)
C21_SendIffNonEmpty ==
    \A c \in Categories :
        Finished(ProcedureOf(c)) =>
            /\ CallsFor(c) <= 1
            /\ CallsFor(c) = 1 <=> ResultOf(c) # <<>>

(* C21 amended: the notifier is called at most once per category and never
   for a category whose result is empty; it is called for every category whose
   result is not empty, but for the overdue category only if the send for the
   items due today, when there was one, did not fail. *)
C21_SendUnlessEarlierFailed ==
    \A c \in Categories :
        Finished(ProcedureOf(c)) =>
            /\ CallsFor(c) <= 1
            /\ CallsFor(c) = 1 <=>
                  /\ ResultOf(c) # <<>>
                  /\ ~(c = "overdue" /\ SendFailed("dueToday"))

\* a run of the due/overdue report with items due today and overdue items:
\* one call for each; the flagged report of the same run has no item and made
\* no call
C21_Witness ==
    /\ runEntry = "main" /\ runPc = "done"
    /\ reported.dueTodayItems # <<>> /\ reported.overdueItems # <<>>
    /\ reported.phatSinh = <<>> /\ "phatSinh" \notin failed
    /\ CallsFor("dueToday") = 1 /\ CallsFor("overdue") = 1
    /\ CallsFor("phatSinh") = 0

\* the send for the items due today threw: the overdue items are not sent
C21_OverdueNotSent ==
    /\ Finished("dueAndOverdue")
    /\ SendFailed("dueToday")
    /\ reported.overdueItems # <<>>
    /\ CallsFor("overdue") = 0

(* C22: in a complete report run (main) the unestimated, the due/overdue and
   the flagged procedure are started in that order whether or not an earlier one
   failed in its read or in its send: after any number of them, failed or not,
   the run is about to start the next one, and it ends only after all three. *)
C22_ReportsIndependent ==
    runEntry = "main" =>
        /\ Len(started) <= 3
        /\ \A k \in 1..Len(started) : started[k] = Procedures[k]
        /\ Len(started) < 3 => runPc = Procedures[Len(started) + 1]
        /\ runPc \in {"mainEnd", "done"} => started = Procedures
        /\ failed \subseteq Range(started)

\* the unestimated procedure failed in its read and the due/overdue procedure
\* in a send; the flagged procedure ran all the same and sent its items
C22_Witness ==
    /\ runEntry = "main" /\ runPc = "done"
    /\ started = Procedures
    /\ "unestimated" \in failed /\ CallsFor("unestimated") = 0
    /\ "dueAndOverdue" \in failed /\ SendFailed("dueToday")
    /\ "phatSinh" \notin failed /\ CallsFor("phatSinh") = 1

----------------------------------------------------------------------------
(* workMigrationJob.setupDropdowns called on a sheet that nothing else changes *)

\* config.statusColors, config.peopleColors, config.delayColors, in key order
StatusColors ==
    << <<StatusValues[1], <<230, 230, 230>>>>, <<StatusValues[2], <<66, 133, 244>>>>,
       <<StatusValues[3], <<234, 67, 53>>>>, <<StatusValues[4], <<251, 188, 4>>>>,
       <<StatusValues[5], <<52, 168, 83>>>>, <<StatusValues[6], <<156, 39, 176>>>> >>

PeopleColors ==
    << <<PeopleValues[1], <<230, 230, 230>>>>, <<PeopleValues[2], <<100, 181, 246>>>>,
       <<PeopleValues[3], <<255, 138, 128>>>>, <<PeopleValues[4], <<0, 188, 212>>>>,
       <<PeopleValues[5], <<124, 179, 66>>>>, <<PeopleValues[6], <<255, 183, 77>>>>,
       <<PeopleValues[7], <<186, 104, 200>>>> >>

DelayColors ==
    << <<DelayValues[2], <<66, 133, 244>>>>, <<DelayValues[3], <<251, 188, 4>>>>,
       <<DelayValues[4], <<234, 67, 53>>>> >>

\* the rule of one addConditionalFormatRule request: TEXT_EQ on a column,
\* a background colour and a white text on a dark background
ColorRule(col, entry) ==
    [column |-> col, equals |-> entry[1], backgroundColor |-> entry[2],
     whiteText |-> \A k \in 1..3 : entry[2][k] < 128]

\* a request that carries the number of rules the sheet has
ColorRequestsCounted(existing) ==
    [k \in 1..Len(StatusColors) |->
        [ColorRule(ColStatus, StatusColors[k]) EXCEPT !.column = Len(existing)]]

\* ...colorRequests, ...peopleColorRequests, ...delayColorRequests
ColorRequests(existing) ==
    [k \in 1..Len(StatusColors) |-> ColorRule(ColStatus, StatusColors[k])]
        \o [k \in 1..Len(PeopleColors) |-> ColorRule(ColPeople, PeopleColors[k])]
        \o [k \in 1..Len(DelayColors) |-> ColorRule(ColDelay, DelayColors[k])]

\* addConditionalFormatRule with index 0, request after request: each rule
\* goes before the rules the sheet has
AddRules(existing, requests) == Reverse(requests) \o existing

\* setDataValidation ONE_OF_LIST, strict, on columns F, H and K
SetValidations(v) ==
    [v EXCEPT ![ColStatus] = [values |-> StatusValues, strict |-> TRUE],
              ![ColPeople] = [values |-> PeopleValues, strict |-> TRUE],
              ![ColDelay] = [values |-> DelayValues, strict |-> TRUE]]

\* the cell values after the three values.batchUpdate calls of one
\* setupDropdowns
setupDropdownsValues(sh) ==
    LET lists == ScanDefaults(GetValues(sh))
    IN  WriteDefaults(
            WriteDefaults(
                WriteDefaults(sh, ColStatus, lists.status, StatusValues[1]),
                ColPeople, lists.people, PeopleValues[1]),
            ColDelay, lists.delay, DelayValues[1])

\* the sheet as the properties of a call read it
Snapshot(sh, v, rules) ==
    [sheet |-> sh, validations |-> v, rules |-> {rules[k] : k \in 1..Len(rules)}]

MaxSetups == 2

\* one call of setupDropdowns in which no request fails
SetupDropdowns ==
    /\ setups < MaxSetups
    /\ validations' = SetValidations(validations)
    /\ condRules' = AddRules(condRules, ColorRequests(condRules))
    /\ sheet' = setupDropdownsValues(sheet)
    /\ setups' = setups + 1
    /\ afterFirst' = IF setups = 0
                     THEN Snapshot(sheet', validations', condRules')
                     ELSE afterFirst
    /\ UNCHANGED <<today, upstream, sheetExists, pc, invoices, existingCodes, rows, scan,
                   result, fault, owed, cycles, edits, parseVars, reportVars, besideSetup>>

\* rows with and without a code, with and without values in the three columns
SetupRowPool ==
    { <<<<"HD001">>, <<"0", "3", "/", "1", "0", "/", "2", "0", "2", "5", " ", "0", "9", ":", "0", "0">>, <<"1", "5", "/", "3">>, <<"A">>, <<"u">>, <<"Chua lam">>, <<>>, <<"Chon nguoi lam">>, <<>>, <<>>, <<"Chon">>, <<>>>>,
      <<<<"HD001">>, <<"0", "3", "/", "1", "0", "/", "2", "0", "2", "5", " ", "0", "9", ":", "0", "0">>, <<"1", "5", "/", "3">>, <<"A">>, <<"u">>, <<>>, <<>>, <<"Minh">>, <<>>, <<>>, <<"Delay lan 1">>, <<>>>>,
      <<<<"HD002">>, <<"0", "3", "/", "1", "0", "/", "2", "0", "2", "5", " ", "0", "9", ":", "0", "0">>, <<"1", "5", "/", "3">>, <<"B">>, <<"v">>, <<"Dang lam">>, <<"2", "h">>, <<>>, <<>>, <<>>, <<>>, <<>>>>,
      <<<<"HD002">>, <<>>, <<>>, <<>>, <<>>, <<>>, <<>>, <<>>, <<>>, <<>>, <<>>, <<>>>>,
      <<<<>>, <<>>, <<>>, <<"C">>, <<"w">>, <<>>, <<>>, <<>>, <<>>, <<"x">>, <<>>, <<>>>>,
      <<<<"HD001">>, <<"0", "3", "/", "1", "0", "/", "2", "0", "2", "5", " ", "0", "9", ":", "0", "0">>, <<"1", "5", "/", "3">>, <<"A">>, <<"u">>, <<"Huy don">>, <<>>, <<"Huy">>, <<>>, <<>>, <<>>, <<>>>> }

\* no sync run is at work and none is to come
IdleSync ==
    /\ today = 1
    /\ upstream = <<>>
    /\ sheetExists = TRUE
    /\ pc = [r \in RunIds |-> "idle"]
    /\ invoices = [r \in RunIds |-> <<>>]
    /\ existingCodes = [r \in RunIds |-> {}]
    /\ rows = [r \in RunIds |-> <<>>]
    /\ scan = [r \in RunIds |-> NoScan]
    /\ result = [r \in RunIds |-> "none"]
    /\ fault = [r \in RunIds |-> "none"]
    /\ owed = 0
    /\ cycles = MaxCycles
    /\ edits = MaxEdits

InitSetup ==
    /\ IdleSync
    /\ sheet \in SheetsOf(SetupRowPool)
    /\ NoParse /\ NoReport /\ NoRun /\ NoDateCheck /\ NoSeed
    /\ NoSetup

NextSetup == SetupDropdowns

SpecSetup == InitSetup /\ [][NextSetup]_vars

(* C23: a second call of setupDropdowns on the sheet the first call left has
   no effect on what the sheet shows: the same validation rules, the same set
   of conditional format rules and the same cell values as after one call. *)
C23_SetupIdempotent ==
    setups = 2 => Snapshot(sheet, validations, condRules) = afterFirst

\* two calls were made on a sheet where the first call had cells to fill
C23_Witness ==
    /\ setups = 2
    /\ Len(sheet) = 3
    /\ sheet[2][ColCode] # <<>> /\ sheet[3][ColCode] # <<>>
    /\ sheet[2][ColStatus] = StatusValues[1] /\ sheet[2][ColPeople] = <<"Minh">>
    /\ sheet[3][ColStatus] = <<"Dang lam">> /\ sheet[3][ColPeople] = PeopleValues[1]
    /\ sheet[3][ColDelay] = DelayValues[1]
    /\ validations[ColStatus].values = StatusValues
    /\ afterFirst.sheet = sheet

\* after two calls the sheet has every conditional format rule twice
C23_RulesTwice ==
    /\ setups = 2
    /\ Len(condRules) = 2 * Cardinality(afterFirst.rules)
    /\ \A k \in 1..Cardinality(afterFirst.rules) :
          condRules[k] = condRules[k + Cardinality(afterFirst.rules)]

----------------------------------------------------------------------------
(* Properties of the sync runs, continued *)

\* the rows of the sheet that have a code and an empty status, assignee or
\* delay cell
UnfilledRows(sh) ==
    {i \in 2..Len(sh) :
        /\ sh[i][ColCode] # <<>>
        /\ \E col \in {ColStatus, ColPeople, ColDelay} : sh[i][col] = <<>>}

\* run r returns from main with true in this step
Succeeds(r) == pc[r] \in CallSteps /\ pc'[r] = "done" /\ result'[r] = TRUE

(* C24: the backfill of the default values runs in every sync that reaches the
   sheet, also when every fetched invoice is already there: when a sync
   returns true, no row with a code has an empty status, assignee or delay
   cell. *)
C24_BackfillEverySync ==
    [][\A r \in RunIds : Succeeds(r) => UnfilledRows(sheet') = {}]_vars

\* a sync that found no new invoice has returned true and left a row with a
\* code and an empty status cell
C24_LeftUnfilled ==
    /\ \E r \in RunIds : pc[r] = "done" /\ result[r] = TRUE /\ fault[r] = "none"
    /\ Quiet
    /\ sheetExists
    /\ UnfilledRows(sheet) # {}

\* what addToGoogleSheet hands to main: 'return;' when there is no new
\* invoice and the end of the function body otherwise, both undefined
addToGoogleSheetReturn == [type |-> "undefined"]

\* the pair {inserted, skipped} for a batch and the keys of the sheet
CountsOf(batch, keys) ==
    [type |-> "object",
     inserted |-> Len(Kept(batch, keys)),
     skipped |-> Len(batch) - Len(Kept(batch, keys))]

(* C25: sync returns the pair {inserted, skipped}: inserted is the number of
   input records whose code was not among the existing keys, skipped the number
   of those whose code was, and the two add up to the number of input
   records. *)
C25_SyncCounts ==
    [][\A r \in RunIds :
          Does(r, "readKeys") =>
              addToGoogleSheetReturn = CountsOf(invoices[r], SheetCodes(sheet))]_vars

\* the payment status a description gives: that of its last marker line
PaymentOf(description) ==
    LET markers == MarkersOf(description)
    IN  IF markers = <<>> THEN <<>>
        ELSE IF Stripped(markers[Len(markers)]) = <<"DD", "T", "T">> THEN Paid
        ELSE Unpaid

(* C26: every row a sync writes has 12 cells in the column order of the header;
   its status, assignee and delay cells hold the first configured value of
   their lists, its time, note and new-return-date cells are empty, and its
   payment cell holds the payment status parsed from the invoice's
   description. *)
C26_WrittenRow ==
    [][\A r \in RunIds :
        Does(r, "fill") =>
            LET new == Kept(invoices[r], existingCodes[r])
            IN  /\ Len(sheet') >= Total(new) + 1
                /\ \A j \in 1..Len(new) : \A k \in 1..Size(new[j]) :
                      LET row == sheet'[1 + Offset(new, j) + k]
                      IN  /\ Len(row) = 12
                          /\ Len(Headers) = 12
                          /\ row[ColCode] = new[j].code
                          /\ row[ColStatus] = StatusValues[1]
                          /\ row[ColPeople] = PeopleValues[1]
                          /\ row[ColDelay] = DelayValues[1]
                          /\ row[ColTime] = <<>>
                          /\ row[ColNote] = <<>>
                          /\ row[ColNewReturn] = <<>>
                          /\ row[ColPayment]
                                = PaymentOf(DescriptionAt(new[j].purchaseDate))]_vars

\* a run has written the two rows of HD001, whose description has the line
\* "DDTT", below the row of HD002, which has no description
C26_Witness ==
    \E r \in RunIds :
        /\ pc[r] = "format"
        /\ Len(rows[r]) = 3
        /\ Len(sheet) >= 4
        /\ sheet[2][ColCode] = HD002 /\ sheet[2][ColPayment] = <<>>
        /\ sheet[3][ColCode] = HD001 /\ sheet[3][ColPayment] = Paid
        /\ sheet[4][ColCode] = HD001 /\ sheet[4][ColPayment] = Paid
        /\ \A i \in 2..4 : /\ sheet[i][ColStatus] = StatusValues[1]
                           /\ sheet[i][ColPeople] = PeopleValues[1]
                           /\ sheet[i][ColDelay] = DelayValues[1]
                           /\ sheet[i][ColTime] = <<>>

----------------------------------------------------------------------------
(* The receive date from the sync to the unestimated report.  The sync enters
   formatDate(purchaseDate) into column B with valueInputOption USER_ENTERED
   and gives the cell the number format DATE_TIME "dd/MM/yyyy HH:mm"; the
   report reads the cell with values.get, which returns the formatted value.
   Whether the spreadsheet takes the entered text month first or day first is
   its locale, which the program does not set: either may be the case. *)

Locales == {"monthFirst", "dayFirst"}

NoMoment == [year |-> 0, month |-> 0, day |-> 0, hours |-> 0, minutes |-> 0]

\* the moment the spreadsheet recognises in the text formatDate(d) entered as
\* by a user; NoMoment where the text is no date of the locale
RecognisedDate(d, locale) ==
    IF locale = "monthFirst" THEN d
    ELSE IF d.day <= 12 /\ d.month <= DaysIn(d.day)
         THEN [d EXCEPT !.day = d.month, !.month = d.day]
         ELSE NoMoment

\* the number format of column B applied to a moment: dd/MM/yyyy HH:mm
DateTimePattern(m) ==
    Pad2(m.day) \o <<"/">> \o Pad2(m.month) \o <<"/">> \o Year4(m.year)
        \o <<" ">> \o Pad2(m.hours) \o <<":">> \o Pad2(m.minutes)

\* the formatted value of the cell the sync wrote for the purchase date d
FormattedValue(d, locale) ==
    IF RecognisedDate(d, locale) = NoMoment THEN formatDate(d)
    ELSE DateTimePattern(RecognisedDate(d, locale))

\* the purchase dates of the invoices followed
PurchaseDates ==
    [year : {2025}, month : {1, 3, 12}, day : {3, 10, 12, 13, 15}, hours : {9},
     minutes : {0}]

\* texts a cell of column B may show that no sync produced
TypedCells ==
    { <<"1", "5", "/", "0", "3", "/", "2", "0", "2", "5", " ", "0", "9", ":", "0", "0">>,
      <<"1", "3", "/", "1", "3", "/", "2", "0", "2", "5">>,
      <<"3", "/", "1", "0", "/", "2", "0", "2", "5">>,
      <<"2", "0", "2", "5", "-", "0", "3", "-", "1", "0">>,
      <<" ", "0", "3", "/", "1", "0", "/", "2", "0", "2", "5">>,
      <<"1", "/", "2", "/", "3", "/", "4">>,
      <<"1", "5", "/", "0", "3">>,
      <<"1", "3", "x", "/", "0", "3", "/", "2", "0", "2", "5">>,
      <<>> }

\* the sync writes the row of an invoice bought at the moment bought
WriteReceiveDate ==
    /\ datePc = "start"
    /\ receiveCell' = FormattedValue(bought, sheetLocale)
    /\ datePc' = "written"
    /\ UNCHANGED <<syncVars, parseVars, reportVars, besideDate, bought, sheetLocale,
                   wanted, reconciledText, isTargetDate>>

\* somebody types the receive date of a row
TypeReceiveDate ==
    /\ datePc = "start"
    /\ \E text \in TypedCells : receiveCell' = text
    /\ datePc' = "written"
    /\ UNCHANGED <<syncVars, parseVars, reportVars, besideDate, bought, sheetLocale,
                   wanted, reconciledText, isTargetDate>>

\* the filter of readSheetData looks at the receive date of the row
ReadReceiveDate ==
    /\ datePc = "written"
    /\ reconciledText' = formattedReceiveDate(receiveCell)
    /\ isTargetDate' = (formattedReceiveDate(receiveCell) = reportFormatDate(wanted))
    /\ datePc' = "read"
    /\ UNCHANGED <<syncVars, parseVars, reportVars, besideDate, bought, sheetLocale,
                   wanted, receiveCell>>

InitDate ==
    /\ IdleSync
    /\ sheet = <<Headers>>
    /\ NoParse /\ NoReport /\ NoRun /\ NoSetup /\ NoSeed
    /\ bought \in PurchaseDates
    /\ sheetLocale \in Locales
    /\ wanted \in {DateOf(bought), [year |-> 2025, month |-> 3, day |-> 15]}
    /\ receiveCell = <<>>
    /\ reconciledText = <<>>
    /\ isTargetDate = FALSE
    /\ datePc = "start"

NextDate == WriteReceiveDate \/ TypeReceiveDate \/ ReadReceiveDate

SpecDate == InitDate /\ [][NextDate]_vars

\* the longest run of digits a text starts with, as a number; -1 without one
IntegerValue(a) ==
    IF a = <<>> \/ a[1] \notin DigitSet THEN -1
    ELSE LET n == CHOOSE k \in 1..Len(a) :
                      /\ IsNumeral(SubSeq(a, 1, k))
                      /\ (k = Len(a) \/ a[k + 1] \notin DigitSet)
         IN  ToNumber(SubSeq(a, 1, n))

\* the text before the first space, with a/b/c turned into b/a/c when the
\* integer value of a is above 12
Reconciled(cell) ==
    LET text == Pieces(cell, " ")[1]
        p == Pieces(text, "/")
    IN  IF Len(p) = 3 /\ IntegerValue(p[1]) > 12
        THEN p[2] \o <<"/">> \o p[1] \o <<"/">> \o p[3]
        ELSE text

(* C27: the report reconciles a receive date a/b/c to b/a/c when the integer
   value of a exceeds 12 and leaves every other text as it is, and it takes
   the row for the target day exactly when the reconciled text equals the
   target day written MM/DD/YYYY. *)
C27_Reconciliation ==
    datePc = "read" =>
        /\ reconciledText = Reconciled(receiveCell)
        /\ isTargetDate = (Reconciled(receiveCell) = reportFormatDate(wanted))

\* 15/03/2025 09:00 is read as 03/15/2025 and taken for 15 March
C27_Witness ==
    /\ datePc = "read"
    /\ receiveCell = <<"1", "5", "/", "0", "3", "/", "2", "0", "2", "5", " ",
                       "0", "9", ":", "0", "0">>
    /\ reconciledText = <<"0", "3", "/", "1", "5", "/", "2", "0", "2", "5">>
    /\ wanted = [year |-> 2025, month |-> 3, day |-> 15]
    /\ isTargetDate

\* a text of four parts is left as it is
C27_WitnessUnchanged ==
    /\ datePc = "read"
    /\ receiveCell = <<"1", "/", "2", "/", "3", "/", "4">>
    /\ reconciledText = receiveCell
    /\ ~isTargetDate

(* C28 as stated: a row the sync wrote for a purchase on day D is taken for
   the target day by the unestimated report whose target day is D. *)
C28_RoundTrip ==
    (/\ datePc = "read"
     /\ receiveCell = FormattedValue(bought, sheetLocale)
     /\ wanted = DateOf(bought))
        => isTargetDate

\* the text of the sync, cut and reconciled, is the target-day text
C28_TextRoundTrip ==
    formattedReceiveDate(formatDate(bought)) = reportFormatDate(DateOf(bought))

\* the purchase of 10 March in a month-first spreadsheet is not taken for 10 March
C28_NotSelected ==
    /\ datePc = "read"
    /\ sheetLocale = "monthFirst"
    /\ bought = [year |-> 2025, month |-> 3, day |-> 10, hours |-> 9, minutes |-> 0]
    /\ wanted = [year |-> 2025, month |-> 3, day |-> 10]
    /\ receiveCell = <<"1", "0", "/", "0", "3", "/", "2", "0", "2", "5", " ",
                       "0", "9", ":", "0", "0">>
    /\ ~isTargetDate


----------------------------------------------------------------------------
(* The frame of the default backfill *)

BackfillSteps == {"bfStatus", "bfPeople", "bfDelay"}

\* run r makes one of the three writes of the backfill
Backfills(r) == pc[r] \in BackfillSteps /\ pc'[r] # pc[r] /\ fault'[r] = fault[r]

(* C29 as stated: every write of the default backfill changes only cells of
   the status, assignee and delay columns that are empty when the write is made
   and lie in rows with an invoice code, sets them to the default and leaves
   every other cell as it is, whatever happened to the sheet since the pass
   read it. *)
C29_BackfillFrame ==
    [][\A r \in RunIds :
          Backfills(r) =>
              /\ Len(sheet') = Len(sheet)
              /\ \A i \in 1..Len(sheet) : SameButDefaults(sheet[i], sheet'[i])]_vars

\* the row numbers the pass read belong to other rows after an insertion: a
\* write is about to reach a cell that holds a value
C29_AboutToHitShiftedRow ==
    \E r \in RunIds : \E i \in scan[r].people :
        /\ pc[r] = "bfPeople"
        /\ edits = 1
        /\ i <= Len(sheet)
        /\ sheet[i][ColPeople] # <<>>


----------------------------------------------------------------------------
(* dataMigrationJob.seedCategories.  The seed list mock-data/category.json and
   dbService are not part of the sources: the list is taken as MaxSeeds distinct
   categories, dbService.get as the count of the rows of the table and
   dbService.insert as adding one row, each of them a call that may throw. *)

MaxSeeds == 3

MaxSeedRuns == 5

seedCategory == [k \in 1..MaxSeeds |-> [name |-> k]]

\* SELECT COUNT(*) as count FROM item_category
categoryCount(table) == Len(table)

\* the run ends: what it did is kept, the next run may start
EndRun(outcome) ==
    /\ seedPc' = "idle"
    /\ seedRuns' = Append(seedRuns, outcome)

\* main is started and connects to the database
StartMain ==
    /\ seedPc = "idle"
    /\ Len(seedRuns) < MaxSeedRuns
    /\ \E ok \in BOOLEAN :
          IF ok THEN seedPc' = "count" /\ UNCHANGED seedRuns
          ELSE EndRun("failed")
    /\ UNCHANGED <<syncVars, parseVars, reportVars, besideSeed, categoryTable, seedNext>>

\* seedCategories counts the rows and decides
CountCategories ==
    /\ seedPc = "count"
    /\ \E ok \in BOOLEAN :
          IF ~ok THEN EndRun("failed") /\ UNCHANGED seedNext
          ELSE IF categoryCount(categoryTable) = 0
               THEN /\ seedPc' = "insert"
                    /\ seedNext' = 1
                    /\ UNCHANGED seedRuns
               ELSE EndRun("skipped") /\ UNCHANGED seedNext
    /\ UNCHANGED <<syncVars, parseVars, reportVars, besideSeed, categoryTable>>

\* one turn of the loop: insertCategory(seedCategory[seedNext])
InsertCategory ==
    /\ seedPc = "insert"
    /\ \E ok \in BOOLEAN :
          IF ~ok
          THEN EndRun("failed") /\ UNCHANGED <<categoryTable, seedNext>>
          ELSE /\ categoryTable' = Append(categoryTable, seedCategory[seedNext])
               /\ IF seedNext = Len(seedCategory)
                  THEN EndRun("seeded") /\ UNCHANGED seedNext
                  ELSE seedNext' = seedNext + 1 /\ UNCHANGED <<seedPc, seedRuns>>
    /\ UNCHANGED <<syncVars, parseVars, reportVars, besideSeed>>

InitSeed ==
    /\ IdleSync
    /\ sheet = <<Headers>>
    /\ NoParse /\ NoReport /\ NoRun /\ NoSetup /\ NoDateCheck
    /\ categoryTable = <<>>
    /\ seedPc = "idle"
    /\ seedNext = 1
    /\ seedRuns = <<>>

NextSeed == StartMain \/ CountCategories \/ InsertCategory

SpecSeed == InitSeed /\ [][NextSeed]_vars

\* how many rows of the table hold the category
RowsHolding(category) ==
    Cardinality({i \in 1..Len(categoryTable) : categoryTable[i] = category})

(* C30 as stated: whenever a run of seedCategories has returned, after any
   number of runs of which some may have failed between two inserts, the
   table holds every seed category exactly once. *)
C30_SeedIdempotent ==
    (/\ seedPc = "idle"
     /\ seedRuns # <<>>
     /\ seedRuns[Len(seedRuns)] \in {"seeded", "skipped"})
        => \A k \in 1..Len(seedCategory) : RowsHolding(seedCategory[k]) = 1

\* the part of the claim that holds: a run inserts only into an empty table,
\* and no category is ever held twice
C30_NeverTwice ==
    /\ \A k \in 1..Len(seedCategory) : RowsHolding(seedCategory[k]) <= 1
    /\ seedPc = "insert" => Len(categoryTable) = seedNext - 1

\* a run failed after the first insert, the next run found a row and skipped:
\* the table is left with one category
C30_SeedsMissing ==
    /\ seedPc = "idle"
    /\ seedRuns = <<"failed", "skipped">>
    /\ categoryTable = <<seedCategory[1]>>

====
